---- MODULE Spec2Model ----
(***************************************************************************)
(* A model of one replication run of link-replication (radicle-link):      *)
(* the evaluator (lib.rs pull/clone, eval/pull.rs, eval/step.rs), the      *)
(* network driver (io/net.rs), the three negotiation steps (peek/clone.rs, *)
(* peek/fetch.rs, fetch.rs), the speculative FetchState and its Shim       *)
(* (state.rs), sigrefs::combined (sigrefs.rs), the persistent reference    *)
(* database transaction (io/refdb.rs), the object database (io/odb.rs)     *)
(* and the ref rewriting functions (refs/scoped.rs, git-ref-format).       *)
(***************************************************************************)
EXTENDS Integers, Sequences, FiniteSets, TLC

(***************************************************************************)
(* Bounds of the model.                                                    *)
(***************************************************************************)
\* Every kind of object has MaxOid commits; 0 is "no object id" (None).
MaxOid == 4
\* Tips the remote can advertise for rad/signed_refs are 1..MaxSigTip.
MaxSigTip == 2

(***************************************************************************)
(* Peers, URN, object ids.                                                 *)
(***************************************************************************)
LocalId == "L"
PeerA == "A"
PeerB == "B"
Peers == {LocalId, PeerA, PeerB}
NoPeer == "-"
Urn == "u"
DelegateUrn == "d"

NoOid == 0
\* Identity documents are the objects 1..MaxOid, signed-refs commits the
\* objects SigBase + 1..MaxSigTip, data commits DataBase + 1..MaxOid.
SigBase == 10
DataBase == 20
IdOids == 1..MaxOid
SigOids == {SigBase + n : n \in 1..MaxSigTip}
DataOids == {DataBase + n : n \in 1..MaxOid}
Oids == IdOids \cup SigOids \cup DataOids

\* The commit graph of each kind of object: the first and the fourth commit
\* are roots, the parent of any other n-th commit is the (n \div 2)-th, so
\* the second and the third are both children of the first and neither is
\* an ancestor of the other, and the fourth shares no history with them.
Parent(o) ==
    LET base == (o \div SigBase) * SigBase
        n    == o - base
    IN  IF n \div 2 = 0 \/ n = 4 THEN 0 ELSE base + (n \div 2)

RECURSIVE Ancestors(_)
Ancestors(n) == IF n = 0 THEN {} ELSE {n} \cup Ancestors(Parent(n))

Closure(S) == UNION {Ancestors(n) : n \in S}

\* An ancestry check that walks from the old tip instead of the new one.
is_in_ancestry_path_swapped(odb, new, old) ==
    IF new = old THEN TRUE
    ELSE IF new \notin odb \/ old \notin odb THEN FALSE
    ELSE new \in Ancestors(old)

\* Odb::is_in_ancestry_path(new, old)
is_in_ancestry_path(odb, new, old) ==
    IF new = old THEN TRUE
    ELSE IF new \notin odb \/ old \notin odb THEN FALSE
    ELSE old \in Ancestors(new)

(***************************************************************************)
(* Reference names are sequences of path components.                       *)
(***************************************************************************)
NoName == <<>>

Skip(s, n) == SubSeq(s, n + 1, Len(s))

Qualified(n) == Len(n) >= 3 /\ n[1] = "refs"

\* Option<Namespaced>::from(&RefStr)
is_namespaced(n) ==
    Len(n) >= 4 /\ n[1] = "refs" /\ n[2] = "namespaces" /\ n[4] = "refs"

\* Qualified::add_namespace / refs::namespaced
namespaced(ns, n) == <<"refs", "namespaces", ns>> \o n

\* Namespaced::strip_namespace
strip_namespace(n) == Skip(n, 3)

\* A recursive strip that stops after the first namespace.
strip_namespace_once(n) == Skip(n, 3)

\* Namespaced::strip_namespace_recursive
RECURSIVE strip_namespace_recursive(_)
strip_namespace_recursive(n) ==
    LET strip == strip_namespace(n)
    IN  IF is_namespaced(strip) THEN strip_namespace_recursive(strip) ELSE strip

\* What a call yields when it panics (a failed expect).
Panicked == <<"panicked">>

\* A remote_tracking that leaves a name under refs/remotes/ as it is.
RECURSIVE remote_tracking_keeping(_, _)
remote_tracking_keeping(remote_id, n) ==
    IF Len(n) < 3 THEN NoName
    ELSE IF n[2] = "remotes"
         THEN IF Len(n) < 5 THEN NoName ELSE n
    ELSE IF n[2] = "namespaces"
         THEN IF is_namespaced(n)
              THEN remote_tracking_keeping(remote_id, strip_namespace_recursive(n))
              ELSE Panicked
    ELSE <<"refs", "remotes", remote_id>> \o Skip(n, 1)

\* refs::remote_tracking; NoName is Option::None.  A name that starts with
\* refs/namespaces/ without being namespaced fails the expect.
RECURSIVE remote_tracking(_, _)
remote_tracking(remote_id, n) ==
    IF Len(n) < 3 THEN NoName
    ELSE IF n[2] = "remotes"
         THEN IF Len(n) < 5 THEN NoName
              ELSE <<"refs", "remotes", remote_id>> \o Skip(n, 3)
    ELSE IF n[2] = "namespaces"
         THEN IF is_namespaced(n)
              THEN remote_tracking(remote_id, strip_namespace_recursive(n))
              ELSE Panicked
    ELSE <<"refs", "remotes", remote_id>> \o Skip(n, 1)

\* refs::owned; NoName is Option::None
owned(n) ==
    IF Len(n) < 3 THEN NoName
    ELSE IF n[2] = "namespaces" THEN NoName
    ELSE IF n[2] = "remotes"
         THEN IF Len(n) < 5 THEN NoName
              ELSE <<"refs", n[4]>> \o Skip(n, 4)
    ELSE n

\* Owned::into_remote_tracking
into_remote_tracking(own, remote_id) ==
    <<"refs", "remotes", remote_id>> \o Skip(own, 1)

\* A scoped that makes a remote-tracking name also of the remote's own refs.
scoped_always_tracking(wanted_id, remote_id, n) ==
    IF owned(n) = NoName THEN Panicked
    ELSE into_remote_tracking(owned(n), wanted_id)

\* refs::scoped; owned(name).expect(..) panics on None
scoped(wanted_id, remote_id, n) ==
    LET own == owned(n)
    IN  IF own = NoName THEN Panicked
        ELSE IF wanted_id = remote_id THEN own
        ELSE into_remote_tracking(own, wanted_id)

(***************************************************************************)
(* refs::parse: an advertised name splits into an optional remote peer and *)
(* an identity-layer ref (rad/...) or a data ref (category, name).         *)
(***************************************************************************)
NoParse == [ok |-> FALSE, remote |-> NoPeer, rad |-> "", cat |-> "", rest |-> NoName]

parse(n) ==
    IF ~Qualified(n) THEN NoParse
    ELSE LET isRemote == n[2] = "remotes"
             remote   == IF isRemote THEN n[3] ELSE NoPeer
             base     == IF isRemote THEN Skip(n, 3) ELSE Skip(n, 1)
         IN  IF Len(base) < 2 \/ n[2] = "namespaces" THEN NoParse
             ELSE IF base[1] = "rad"
                  THEN [ok |-> TRUE, remote |-> remote,
                        rad |-> IF base = <<"rad", "id">> THEN "Id"
                                ELSE IF base = <<"rad", "self">> THEN "Self"
                                ELSE IF base = <<"rad", "signed_refs">> THEN "SignedRefs"
                                ELSE IF Len(base) = 3 /\ base[2] = "ids" THEN "Ids"
                                ELSE "Other",
                        cat |-> "rad", rest |-> Skip(base, 1)]
                  ELSE [ok |-> TRUE, remote |-> remote, rad |-> "",
                        cat |-> IF base[1] \in {"heads", "notes", "tags"}
                                THEN base[1] ELSE "unknown",
                        rest |-> Skip(base, 1)]

\* FilteredRef::new: the remote peer defaults to the given peer.
\* `name` is the advertised name, `remote_id` the resolved scope.
FilteredRef(name, tip, remote_id, parsed) ==
    [name |-> name, tip |-> tip,
     remote_id |-> IF parsed.remote # NoPeer THEN parsed.remote ELSE remote_id,
     rad |-> parsed.rad, cat |-> parsed.cat]

(***************************************************************************)
(* Updates (refdb.rs) and the stored references.                           *)
(***************************************************************************)
Policies == {"Abort", "Reject", "Allow"}

Direct(name, target, no_ff) ==
    [kind |-> "Direct", name |-> name, target |-> target,
     policy |-> no_ff, symname |-> NoName]

\* Update::Symbolic with SymrefTarget {name: symname, target}
SymbolicUpdate(name, symname, target, type_change) ==
    [kind |-> "Symbolic", name |-> name, target |-> target,
     policy |-> type_change, symname |-> symname]

\* git Target::Peeled / Target::Symbolic
Peeled(oid) == [kind |-> "peeled", oid |-> oid, to |-> NoName]
Symbolic(to) == [kind |-> "symbolic", oid |-> NoOid, to |-> to]

\* PreviousValue::MustNotExist / MustExistAndMatch
MustNotExist == [exists |-> FALSE, target |-> Peeled(NoOid)]
MustExistAndMatch(t) == [exists |-> TRUE, target |-> t]

RefEdit(name, expected, new) == [name |-> name, expected |-> expected, new |-> new]

\* refdb::Updated
Updated(e) ==
    IF e.new.kind = "peeled"
    THEN [kind |-> "Direct", name |-> e.name, target |-> e.new.oid, to |-> NoName]
    ELSE [kind |-> "Symbolic", name |-> e.name, target |-> NoOid, to |-> e.new.to]

NoApplied == [rejected |-> <<>>, updated |-> {}]

Put(f, k, v) == [x \in DOMAIN f \cup {k} |-> IF x = k THEN v ELSE f[x]]
EmptyMap == [x \in {} |-> 0]

(***************************************************************************)
(* The persistent reference database (io/refdb.rs).                        *)
(***************************************************************************)
\* Refdb::namespaced: prefix the name with the namespace of the URN.
Namespaced(n) == namespaced(Urn, n)

\* Refdb::find_namespaced: peel to the first object id; 0 is None and -1 a
\* peel error (a symref whose target is missing).
find_namespaced(store, name) ==
    IF name \notin DOMAIN store THEN NoOid
    ELSE IF store[name].kind = "peeled" THEN store[name].oid
    ELSE LET to == store[name].to
         IN  IF to \in DOMAIN store /\ store[to].kind = "peeled"
             THEN store[to].oid ELSE -1

\* Refdb::refname_to_id of the persistent store
refname_to_id(store, n) == find_namespaced(store, Namespaced(n))

\* Refdb::as_edits: Err(e), Left(update) or Right(edits)
as_edits(store, odb, up) ==
    LET name == Namespaced(up.name)
    IN  IF up.kind = "Direct"
        THEN LET tip == find_namespaced(store, name)
             IN  IF tip = -1 THEN [tag |-> "Err", err |-> "Find", edits |-> <<>>]
                 ELSE IF tip = NoOid
                 THEN [tag |-> "Right", err |-> "",
                       edits |-> <<RefEdit(name, MustNotExist, Peeled(up.target))>>]
                 ELSE IF ~is_in_ancestry_path(odb, up.target, tip)
                 THEN IF up.policy = "Abort"
                      THEN [tag |-> "Err", err |-> "NonFF", edits |-> <<>>]
                      ELSE IF up.policy = "Reject"
                      THEN [tag |-> "Left", err |-> "", edits |-> <<>>]
                      ELSE [tag |-> "Right", err |-> "",
                            edits |-> <<RefEdit(name, MustExistAndMatch(Peeled(tip)),
                                                Peeled(up.target))>>]
                 ELSE [tag |-> "Right", err |-> "",
                       edits |-> <<RefEdit(name, MustExistAndMatch(Peeled(tip)),
                                           Peeled(up.target))>>]
        ELSE LET srcPeeled == name \in DOMAIN store /\ store[name].kind = "peeled"
                 dstName == up.symname
             IN  IF srcPeeled /\ up.policy = "Abort"
                 THEN [tag |-> "Err", err |-> "TypeChange", edits |-> <<>>]
                 ELSE IF srcPeeled /\ up.policy = "Reject"
                 THEN [tag |-> "Left", err |-> "", edits |-> <<>>]
                 ELSE IF dstName \in DOMAIN store /\ store[dstName].kind = "symbolic"
                 THEN [tag |-> "Err", err |-> "TargetSymbolic", edits |-> <<>>]
                 ELSE IF dstName \notin DOMAIN store
                 THEN [tag |-> "Right", err |-> "",
                       edits |-> <<RefEdit(dstName, MustNotExist, Peeled(up.target)),
                                   RefEdit(name, MustNotExist, Symbolic(dstName))>>]
                 ELSE LET dst == store[dstName].oid
                          is_ff == up.target # dst
                                   /\ is_in_ancestry_path(odb, up.target, dst)
                      IN  [tag |-> "Right", err |-> "",
                           edits |->
                             (IF is_ff
                              THEN <<RefEdit(dstName, MustExistAndMatch(Peeled(dst)),
                                             Peeled(up.target))>>
                              ELSE <<>>)
                             \o <<RefEdit(name, MustNotExist, Symbolic(dstName))>>]

\* A fold that keeps the first edit of a name.
RECURSIVE fold_edits_first(_, _, _, _, _)
fold_edits_first(store, odb, ups, i, es) ==
    IF i > Len(ups) THEN es
    ELSE LET e == as_edits(store, odb, ups[i])
             Keep(f, k, v) == IF k \in DOMAIN f THEN f ELSE Put(f, k, v)
         IN  IF e.tag = "Err" THEN [es EXCEPT !.err = e.err]
             ELSE IF e.tag = "Left"
             THEN fold_edits_first(store, odb, ups, i + 1,
                                   [es EXCEPT !.rejected = Append(@, ups[i])])
             ELSE LET e1 == Keep(es.edits, e.edits[1].name, e.edits[1])
                      e2 == IF Len(e.edits) = 2
                            THEN Keep(e1, e.edits[2].name, e.edits[2]) ELSE e1
                  IN  fold_edits_first(store, odb, ups, i + 1, [es EXCEPT !.edits = e2])

\* The fold of Refdb::update over the updates from index i on: rejected
\* updates are collected, edits are keyed by name (a later edit of a name
\* replaces an earlier one), the first error ends the fold.
RECURSIVE fold_edits(_, _, _, _, _)
fold_edits(store, odb, ups, i, es) ==
    IF i > Len(ups) THEN es
    ELSE LET e == as_edits(store, odb, ups[i])
         IN  IF e.tag = "Err" THEN [es EXCEPT !.err = e.err]
             ELSE IF e.tag = "Left"
             THEN fold_edits(store, odb, ups, i + 1,
                             [es EXCEPT !.rejected = Append(@, ups[i])])
             ELSE LET e1 == Put(es.edits, e.edits[1].name, e.edits[1])
                      e2 == IF Len(e.edits) = 2
                            THEN Put(e1, e.edits[2].name, e.edits[2]) ELSE e1
                  IN  fold_edits(store, odb, ups, i + 1, [es EXCEPT !.edits = e2])

\* transaction().prepare(): every edit's expected previous value must hold.
PreconditionHolds(store, e) ==
    IF e.expected.exists
    THEN e.name \in DOMAIN store /\ store[e.name] = e.expected.target
    ELSE e.name \notin DOMAIN store

\* tx.commit(): all edits are applied.
Commit(store, edits) ==
    [n \in DOMAIN store \cup DOMAIN edits |->
        IF n \in DOMAIN edits THEN edits[n].new ELSE store[n]]

\* A transaction that fails when an update of the batch was rejected.
transact_no_rejects(store, es, lock_ok) ==
    IF es.err # "" \/ es.rejected # <<>>
    THEN [err |-> IF es.err # "" THEN es.err ELSE "Rejected", store |-> store,
          applied |-> NoApplied]
    ELSE IF ~lock_ok \/ \E n \in DOMAIN es.edits : ~PreconditionHolds(store, es.edits[n])
    THEN [err |-> "Prepare", store |-> store, applied |-> NoApplied]
    ELSE [err |-> "", store |-> Commit(store, es.edits),
          applied |-> [rejected |-> es.rejected,
                       updated |-> {Updated(es.edits[n]) : n \in DOMAIN es.edits}]]

\* A transaction that, when a later update fails, still commits the edits
\* of the updates before it.
transact_partial(store, es, lock_ok) ==
    IF es.err # ""
    THEN [err |-> es.err, store |-> Commit(store, es.edits), applied |-> NoApplied]
    ELSE IF ~lock_ok \/ \E n \in DOMAIN es.edits : ~PreconditionHolds(store, es.edits[n])
    THEN [err |-> "Prepare", store |-> store, applied |-> NoApplied]
    ELSE [err |-> "", store |-> Commit(store, es.edits),
          applied |-> [rejected |-> es.rejected,
                       updated |-> {Updated(es.edits[n]) : n \in DOMAIN es.edits}]]

\* Refdb::update once the updates are folded into `es`: the transaction is
\* prepared and committed.  `lock_ok` is whether the transaction could
\* take its locks (lock::acquire::Fail::Immediately).
transact(store, es, lock_ok) ==
    IF es.err # ""
    THEN [err |-> es.err, store |-> store, applied |-> NoApplied]
    ELSE IF ~lock_ok \/ \E n \in DOMAIN es.edits : ~PreconditionHolds(store, es.edits[n])
    THEN [err |-> "Prepare", store |-> store, applied |-> NoApplied]
    ELSE [err |-> "", store |-> Commit(store, es.edits),
          applied |-> [rejected |-> es.rejected,
                       updated |-> {Updated(es.edits[n]) : n \in DOMAIN es.edits}]]

\* Refdb::update: the result carries the error (if any), the new store
\* and the Applied record.
update(store, odb, ups, lock_ok) ==
    transact(store,
             fold_edits(store, odb, ups, 1,
                        [rejected |-> <<>>, edits |-> EmptyMap, err |-> ""]),
             lock_ok)

(***************************************************************************)
(* Identities: the documents found at the identity object ids.             *)
(***************************************************************************)
\* The peers a verified identity delegates to (delegate_ids).
Delegates(h) ==
    IF h = 1 THEN {PeerA}
    ELSE IF h = 2 THEN {PeerA, PeerB}
    ELSE IF h = 3 THEN {LocalId, PeerA}
    ELSE {PeerA}

\* The indirect delegations of a project (delegate_urns).
DelegateUrns(h) == IF h = 2 THEN {DelegateUrn} ELSE {}

\* SomeVerifiedIdentity::Person / Project: the identity that shares no
\* history with the others is a person, the others are projects.
Kind(h) == IF h = 4 THEN "Person" ELSE "Project"

\* Identities::verify(head, resolve): 0 is a verification error, otherwise
\* the verified identity (named by its content id).  `resolve` maps the
\* URNs of indirect delegations to object ids.
verify(odb, head, resolve) ==
    IF head \notin odb \/ head \notin IdOids THEN 0
    ELSE IF \E urn \in DelegateUrns(head) : urn \notin DOMAIN resolve THEN 0
    ELSE head

\* Identities::newer(a, b) of librad's Context
newer(odb, a, b) ==
    IF Kind(a) # Kind(b) THEN [err |-> "Fork", id |-> 0]
    ELSE IF is_in_ancestry_path(odb, a, b) THEN [err |-> "", id |-> a]
    ELSE IF is_in_ancestry_path(odb, b, a) THEN [err |-> "", id |-> b]
    ELSE [err |-> "Other", id |-> 0]

(***************************************************************************)
(* Signed refs: the manifest found at a signed-refs commit.                *)
(***************************************************************************)
Main == <<"refs", "heads", "main">>

\* The signed (refname, tip) pairs of the manifest at commit `at`.
SignedAt(at) == [n \in {Main} |-> DataBase + (at - SigBase)]

\* The peers the signer tracks, flattened to the cutoff.
RemotesAt(of, at, cutoff) ==
    IF cutoff > 0 /\ at = SigBase + 2 THEN Peers \ {of} ELSE {}

Sigrefs(of, at, cutoff) ==
    [found |-> TRUE, err |-> FALSE, at |-> at, refs |-> SignedAt(at),
     remotes |-> RemotesAt(of, at, cutoff)]
SigrefsNone == [found |-> FALSE, err |-> FALSE, at |-> NoOid, refs |-> EmptyMap, remotes |-> {}]
SigrefsErr == [found |-> FALSE, err |-> TRUE, at |-> NoOid, refs |-> EmptyMap, remotes |-> {}]

RadId == <<"refs", "rad", "id">>
RadSelf == <<"refs", "rad", "self">>
RadSignedRefs == <<"refs", "rad", "signed_refs">>
RadIds(urn) == <<"refs", "rad", "ids", urn>>

\* SignedRefs::load of the persistent store (Context::load): the manifest
\* at refs/remotes/<of>/rad/signed_refs.
load(store, of, cutoff) ==
    LET at == refname_to_id(store, remote_tracking(of, RadSignedRefs))
    IN  IF at = -1 THEN SigrefsErr
        ELSE IF at = NoOid THEN SigrefsNone
        ELSE Sigrefs(of, at, cutoff)

\* SignedRefs::load_at of the persistent store
load_at(odb, treeish, of, cutoff) ==
    IF treeish \notin odb \/ treeish \notin SigOids THEN SigrefsErr
    ELSE Sigrefs(of, treeish, cutoff)

(***************************************************************************)
(* FetchState and Shim (state.rs).                                         *)
(***************************************************************************)
\* FetchState::default
FetchStateDefault ==
    [refs |-> EmptyMap, idts |-> EmptyMap, dels |-> EmptyMap, sigs |-> EmptyMap,
     tips |-> <<>>, trks |-> <<>>]

insert_id_tip(st, of, tip) == [st EXCEPT !.idts = Put(@, of, tip)]
insert_sigref_tip(st, of, tip) == [st EXCEPT !.sigs = Put(@, of, tip)]
insert_delegation_tip(st, remote_id, urn, tip) ==
    [st EXCEPT !.dels =
        Put(@, remote_id,
            Put(IF remote_id \in DOMAIN @ THEN @[remote_id] ELSE EmptyMap, urn, tip))]

\* FetchState::id_tip; 0 is None
id_tip(st, of) == IF of \in DOMAIN st.idts THEN st.idts[of] ELSE NoOid
\* FetchState::sigref_tip; 0 is None
sigref_tip(st, of) == IF of \in DOMAIN st.sigs THEN st.sigs[of] ELSE NoOid
\* FetchState::lookup_delegations
lookup_delegations(st, remote) ==
    IF remote \in DOMAIN st.dels THEN st.dels[remote] ELSE EmptyMap

\* refdb::Mem::update of one update: the in-memory store maps the name to
\* the target object id.
MemUpdate(refs, up) == Put(refs, up.name, up.target)

\* FetchState::update_all
RECURSIVE update_all(_, _)
update_all(st, ups) ==
    IF ups = <<>> THEN st
    ELSE update_all([st EXCEPT !.tips = Append(@, Head(ups)),
                               !.refs = MemUpdate(@, Head(ups))],
                    Tail(ups))

\* FetchState::track_all
track_all(st, rels) == [st EXCEPT !.trks = @ \o rels]

\* A Shim that reads the persistent store only.
shim_refname_to_id_inner(st, store, n) == refname_to_id(store, n)

\* Shim as Refdb: refname_to_id
shim_refname_to_id(st, store, n) ==
    IF n \in DOMAIN st.refs THEN st.refs[n] ELSE refname_to_id(store, n)

\* Shim as SignedRefs: load
shim_load(st, store, odb, of, cutoff) ==
    IF DOMAIN st.sigs = {} THEN load(store, of, cutoff)
    ELSE IF sigref_tip(st, of) = NoOid THEN SigrefsNone
    ELSE load_at(odb, sigref_tip(st, of), of, cutoff)

(***************************************************************************)
(* sigrefs::combined (sigrefs.rs).                                         *)
(***************************************************************************)
\* BTreeSet iteration order of peer ids
PeerOrder == <<PeerA, PeerB, LocalId>>
SortedSeq(S) == SelectSeq(PeerOrder, LAMBDA p : p \in S)

NoCombined == [err |-> "", peer |-> NoPeer, refs |-> EmptyMap, remotes |-> {}]

\* The fold over must.chain(may): `loads` is the sequence of
\* <<peer, is_must>> still to be loaded, `ld(p)` the result of
\* SignedRefs::load for p.
RECURSIVE combined_fold(_, _, _)
combined_fold(loads, ld, comb) ==
    IF loads = <<>> THEN comb
    ELSE LET id == Head(loads)[1]
             is_must == Head(loads)[2]
             sr == ld[id]
         IN  IF sr.err THEN [NoCombined EXCEPT !.err = "Load", !.peer = id]
             ELSE IF ~sr.found
             THEN IF is_must THEN [NoCombined EXCEPT !.err = "NotFound", !.peer = id]
                  ELSE combined_fold(Tail(loads), ld, comb)
             ELSE combined_fold(Tail(loads), ld,
                    [comb EXCEPT !.refs = Put(@, id, [at |-> sr.at, refs |-> sr.refs]),
                                 !.remotes = @ \cup sr.remotes])

MustThenMay(must, may) ==
    [i \in 1..Len(SortedSeq(must)) |-> <<SortedSeq(must)[i], TRUE>>]
    \o [i \in 1..Len(SortedSeq(may)) |-> <<SortedSeq(may)[i], FALSE>>]

\* Every peer is loaded the way the `may` peers are.
combined_lenient(ld, must, may) ==
    combined_fold(MustThenMay({}, must \cup may), ld, NoCombined)

\* sigrefs::combined(s, Select {must, may, cutoff})
combined(ld, must, may) == combined_fold(MustThenMay(must, may), ld, NoCombined)

(***************************************************************************)
(* Negotiation steps (peek/clone.rs, peek/fetch.rs, fetch.rs).             *)
(***************************************************************************)
NoRef == [name |-> NoName, tip |-> NoOid, remote_id |-> NoPeer, rad |-> "", cat |-> ""]

ForClone(remote_id) ==
    [kind |-> "ForClone", local_id |-> NoPeer, remote_id |-> remote_id,
     delegates |-> {}, tracked |-> {}, signed_refs |-> NoCombined]
ForFetch(local_id, remote_id, delegates, tracked) ==
    [kind |-> "ForFetch", local_id |-> local_id, remote_id |-> remote_id,
     delegates |-> delegates, tracked |-> tracked, signed_refs |-> NoCombined]
Fetch(local_id, remote_id, signed_refs) ==
    [kind |-> "Fetch", local_id |-> local_id, remote_id |-> remote_id,
     delegates |-> {}, tracked |-> {}, signed_refs |-> signed_refs]

RECURSIVE SetToSeq(_)
SetToSeq(S) ==
    IF S = {} THEN <<>>
    ELSE LET x == CHOOSE y \in S : TRUE IN <<x>> \o SetToSeq(S \ {x})

\* peek::required_refs(id, remote_id)
required_refs(id, remote_id) ==
    {scoped(id, remote_id, RadId), scoped(id, remote_id, RadSelf),
     scoped(id, remote_id, RadSignedRefs)}

\* ForFetch::peers
peers(step) == (step.delegates \cup step.tracked) \ {step.local_id}

\* Fetch::signed; 0 is None
signed(step, id, refname) ==
    IF id \in DOMAIN step.signed_refs.refs
       /\ refname \in DOMAIN step.signed_refs.refs[id].refs
    THEN step.signed_refs.refs[id].refs[refname] ELSE NoOid
is_signed(step, id, refname) == signed(step, id, refname) # NoOid
is_tracked(step, id) == id \in step.signed_refs.remotes

\* A filter whose data step keeps the rad/ refs it is offered.
ref_filter_keeping_rad(step, name, tip) ==
    LET parsed == parse(name)
    IN  IF ~parsed.ok THEN NoRef
        ELSE IF step.kind = "ForClone"
        THEN IF parsed.remote = NoPeer /\ parsed.cat = "rad"
             THEN FilteredRef(name, tip, step.remote_id, parsed) ELSE NoRef
        ELSE IF step.kind = "ForFetch"
        THEN IF parsed.remote = step.local_id THEN NoRef
             ELSE FilteredRef(name, tip, step.remote_id, parsed)
        ELSE IF parsed.cat \in {"heads", "notes", "tags", "rad"}
             THEN LET refname_no_remote == <<"refs", parsed.cat>> \o parsed.rest
                      remote_id == IF parsed.remote # NoPeer THEN parsed.remote
                                   ELSE step.remote_id
                  IN  IF parsed.cat = "rad" \/ is_tracked(step, remote_id)
                         \/ is_signed(step, remote_id, refname_no_remote)
                      THEN FilteredRef(name, tip, remote_id, parsed) ELSE NoRef
             ELSE NoRef

\* Negotiation::ref_filter; NoRef is None
ref_filter(step, name, tip) ==
    LET parsed == parse(name)
    IN  IF ~parsed.ok THEN NoRef
        ELSE IF step.kind = "ForClone"
        THEN IF parsed.remote = NoPeer /\ parsed.cat = "rad"
             THEN FilteredRef(name, tip, step.remote_id, parsed) ELSE NoRef
        ELSE IF step.kind = "ForFetch"
        THEN IF parsed.remote = step.local_id THEN NoRef
             ELSE FilteredRef(name, tip, step.remote_id, parsed)
        ELSE IF parsed.cat \in {"heads", "notes", "tags"}
             THEN LET refname_no_remote == <<"refs", parsed.cat>> \o parsed.rest
                      remote_id == IF parsed.remote # NoPeer THEN parsed.remote
                                   ELSE step.remote_id
                  IN  IF is_tracked(step, remote_id)
                         \/ is_signed(step, remote_id, refname_no_remote)
                      THEN FilteredRef(name, tip, remote_id, parsed) ELSE NoRef
             ELSE NoRef

\* What one retained ref adds to wanted / wants / haves.
Have(store, r) == refname_to_id(store, remote_tracking(r.remote_id, r.name))

Wanted(step, store, r) ==
    IF step.kind = "ForClone" THEN r.remote_id = step.remote_id
    ELSE IF step.kind = "ForFetch" THEN r.remote_id \in peers(step)
    ELSE LET s    == signed(step, r.remote_id, owned(r.name))
             want == IF s # NoOid THEN s
                     ELSE IF is_tracked(step, r.remote_id) THEN r.tip ELSE NoOid
         IN  want # NoOid /\ want # Have(store, r)

\* Negotiation::wants_haves against the refdb `store`
wants_haves(step, store, refs) ==
    LET considered == IF step.kind = "ForClone"
                      THEN {r \in refs : r.remote_id = step.remote_id} ELSE refs
        wanted == {r \in refs : Wanted(step, store, r)}
    IN  [err    |-> \E r \in considered : Have(store, r) = -1,
         wanted |-> wanted,
         wants  |-> {r.tip : r \in wanted},
         haves  |-> {Have(store, r) : r \in considered} \ {NoOid, -1}]

\* peek::mk_ref_update; NoName in `name` stands for None
mk_ref_update(r) ==
    IF r.rad \in {"Id", "Self", "SignedRefs"}
    THEN Direct(remote_tracking(r.remote_id, r.name), r.tip, "Abort")
    ELSE IF r.rad = "Ids"
    THEN SymbolicUpdate(remote_tracking(r.remote_id, r.name),
                        namespaced(r.name[Len(r.name)], RadId), r.tip, "Allow")
    ELSE Direct(NoName, NoOid, "Abort")

RefUpdates(refs) ==
    SelectSeq([i \in 1..Len(refs) |-> mk_ref_update(refs[i])],
              LAMBDA u : u.name # NoName)

\* Layout::pre_validate
pre_validate(step, refs) ==
    LET required ==
            IF step.kind = "ForClone"
            THEN required_refs(step.remote_id, step.remote_id)
            ELSE IF step.kind = "ForFetch"
            THEN UNION {required_refs(id, step.remote_id) :
                            id \in step.delegates \ {step.local_id}}
            ELSE {}
        present == {scoped(x.remote_id, step.remote_id, x.name) : x \in refs}
    IN  required \subseteq present

\* The build profile: whether debug assertions are compiled in
\* (cfg(debug_assertions)); fixed for a run.
VARIABLE debug_assertions

\* debug_assert!(r.remote_id != self.local_id, "never touch our own")
never_touch_our_own(step, refs) ==
    debug_assertions => \A r \in refs : r.remote_id # step.local_id

\* A data step whose updates abort the commit when they are not
\* fast-forwards.
Fetch_prepare_abort(step, rs) ==
    [i \in 1..Len(rs) |->
        Direct(remote_tracking(rs[i].remote_id, rs[i].name), rs[i].tip, "Abort")]

\* UpdateTips::prepare of Fetch: one forced Direct update of the
\* remote-tracking ref per retained ref.
Fetch_prepare(step, rs) ==
    [i \in 1..Len(rs) |->
        Direct(remote_tracking(rs[i].remote_id, rs[i].name), rs[i].tip, "Allow")]

\* UpdateTips::prepare: the error (if any) and the updates
prepare(step, st, odb, refs) ==
    LET rs == SetToSeq(refs)
    IN  IF step.kind = "ForClone"
        THEN IF id_tip(st, step.remote_id) = NoOid
             THEN [err |-> "Panic", ups |-> <<>>]
             ELSE LET verified == verify(odb, id_tip(st, step.remote_id),
                                         lookup_delegations(st, step.remote_id))
                  IN  IF verified = 0 THEN [err |-> "Verification", ups |-> <<>>]
                      ELSE IF step.remote_id \in Delegates(verified)
                      THEN [err |-> "", ups |-> RefUpdates(rs)]
                      ELSE [err |-> "", ups |-> <<>>]
        ELSE IF ~never_touch_our_own(step, refs)
        THEN [err |-> "Panic", ups |-> <<>>]
        ELSE IF step.kind = "ForFetch"
        THEN IF \E r \in refs :
                    /\ r.remote_id \in step.delegates
                    /\ r.rad = "Id"
                    /\ verify(odb, r.tip, lookup_delegations(st, r.remote_id)) = 0
             THEN [err |-> "Verification", ups |-> <<>>]
             ELSE [err |-> "", ups |-> RefUpdates(rs)]
        ELSE [err |-> "", ups |-> Fetch_prepare(step, rs)]

(***************************************************************************)
(* The network driver (io/net.rs).                                         *)
(***************************************************************************)
\* The pack is taken to hold every wanted tip.
nothing_missing(wanted, odb) == {}

\* Network::run_fetch, after the pack is ingested: the wanted refs whose
\* tip the object database does not contain.
not_found_in_pack(wanted, odb) == {r \in wanted : r.tip \notin odb}

\* A driver that asks for the pack whenever ls-refs returned a ref, whether
\* or not it wants anything it does not have.
fetch_pack_unchecked(odb, adv, net, missing, wh) ==
    LET odb2 == odb \cup (Closure(wh.wants \ wh.haves) \ {missing})
        none == [status |-> "", refs |-> {}, odb |-> odb, streams |-> 0,
                 log |-> <<>>]
    IN  IF net \in {1, 3}
        THEN [none EXCEPT !.status = IF net = 1 THEN "Net" ELSE "Cancelled"]
        ELSE IF DOMAIN adv = {}
        THEN [none EXCEPT !.status = "NoMatchingRefs", !.streams = 1,
                          !.log = <<"ls-refs", "NoMatchingRefs">>]
        ELSE IF wh.err
        THEN [none EXCEPT !.status = "Net", !.streams = 1, !.log = <<"ls-refs">>]
        ELSE IF net \in {2, 4}
        THEN [none EXCEPT !.status = IF net = 2 THEN "Net" ELSE "Cancelled",
                          !.streams = 1, !.log = <<"ls-refs">>]
        ELSE IF not_found_in_pack(wh.wanted, odb2) # {}
        THEN [none EXCEPT !.status = "NotFoundInPack", !.odb = odb2, !.streams = 2,
                          !.log = <<"ls-refs", "fetch", "add_pack">>]
        ELSE [status |-> "Ok", refs |-> wh.wanted, odb |-> odb2, streams |-> 2,
              log |-> <<"ls-refs", "fetch", "add_pack">>]

\* Network::run_fetch once the wants and haves `wh` are computed: the
\* skips, the second stream, the pack and the check of the wanted tips.
\* `net` says which stream (if any) fails to open or is cancelled,
\* `missing` is an object the pack sent by the remote lacks (0: none).
fetch_pack(odb, adv, net, missing, wh) ==
    LET odb2 == odb \cup (Closure(wh.wants \ wh.haves) \ {missing})
        none == [status |-> "", refs |-> {}, odb |-> odb, streams |-> 0,
                 log |-> <<>>]
    IN  IF net \in {1, 3}
        THEN [none EXCEPT !.status = IF net = 1 THEN "Net" ELSE "Cancelled"]
        ELSE IF DOMAIN adv = {}
        THEN [none EXCEPT !.status = "NoMatchingRefs", !.streams = 1,
                          !.log = <<"ls-refs", "NoMatchingRefs">>]
        ELSE IF wh.err
        THEN [none EXCEPT !.status = "Net", !.streams = 1, !.log = <<"ls-refs">>]
        ELSE IF wh.wants \ wh.haves = {}
        THEN [none EXCEPT !.status = "WantNothing", !.streams = 1,
                          !.log = <<"ls-refs", "WantNothing">>]
        ELSE IF net \in {2, 4}
        THEN [none EXCEPT !.status = IF net = 2 THEN "Net" ELSE "Cancelled",
                          !.streams = 1, !.log = <<"ls-refs">>]
        ELSE IF not_found_in_pack(wh.wanted, odb2) # {}
        THEN [none EXCEPT !.status = "NotFoundInPack", !.odb = odb2, !.streams = 2,
                          !.log = <<"ls-refs", "fetch", "add_pack">>]
        ELSE [status |-> "Ok", refs |-> wh.wanted, odb |-> odb2, streams |-> 2,
              log |-> <<"ls-refs", "fetch", "add_pack">>]

\* Network::run_fetch.  `adv` are the refs ls-refs returns (name -> tip).
\* The wants and haves are computed against the persistent refdb of the
\* Network.
run_fetch(step, store, odb, adv, net, missing) ==
    fetch_pack(odb, adv, net, missing,
               wants_haves(step, store,
                           {ref_filter(step, n, adv[n]) : n \in DOMAIN adv} \ {NoRef}))

(***************************************************************************)
(* eval::step (eval/step.rs).                                              *)
(***************************************************************************)
\* The tips of the rad/ refs among `refs` are recorded in the FetchState.
RECURSIVE record_tips(_, _)
record_tips(st, rs) ==
    IF rs = <<>> THEN st
    ELSE LET r == Head(rs)
             st2 == IF r.rad = "Id" THEN insert_id_tip(st, r.remote_id, r.tip)
                    ELSE IF r.rad = "Ids"
                    THEN insert_delegation_tip(st, r.remote_id,
                                               r.name[Len(r.name)], r.tip)
                    ELSE IF r.rad = "SignedRefs"
                    THEN insert_sigref_tip(st, r.remote_id, r.tip)
                    ELSE st
         IN  record_tips(st2, Tail(rs))

\* A step that records the tips of the refs before it validates them.
step_fetched_recording(st, s, f) ==
    LET st2 == record_tips(st, SetToSeq(f.refs))
        out == [err |-> "", skip |-> "", st |-> st2, odb |-> f.odb,
                streams |-> f.streams, log |-> <<"reload">> \o f.log]
    IN  IF f.status \in {"Net", "Cancelled", "NotFoundInPack"}
        THEN [out EXCEPT !.err = f.status]
        ELSE IF f.status # "Ok"
        THEN [out EXCEPT !.skip = f.status]
        ELSE IF ~pre_validate(s, f.refs)
        THEN [out EXCEPT !.err = "Layout"]
        ELSE IF prepare(s, st2, f.odb, f.refs).err # ""
        THEN [out EXCEPT !.err = prepare(s, st2, f.odb, f.refs).err]
        ELSE [out EXCEPT !.st = update_all(st2, prepare(s, st2, f.odb, f.refs).ups)]

\* step, once run_fetch has returned `f`: err is the error the step
\* returns ("" if none), skip the SkippedFetch it reports ("" if none).
step_fetched(st, s, f) ==
    LET out == [err |-> "", skip |-> "", st |-> st, odb |-> f.odb,
                streams |-> f.streams, log |-> <<"reload">> \o f.log]
        st2 == record_tips(st, SetToSeq(f.refs))
    IN  IF f.status \in {"Net", "Cancelled", "NotFoundInPack"}
        THEN [out EXCEPT !.err = f.status]
        ELSE IF f.status # "Ok"
        THEN [out EXCEPT !.skip = f.status]
        ELSE IF ~pre_validate(s, f.refs)
        THEN [out EXCEPT !.err = "Layout"]
        ELSE IF prepare(s, st2, f.odb, f.refs).err # ""
        THEN [out EXCEPT !.err = prepare(s, st2, f.odb, f.refs).err, !.st = st2]
        ELSE [out EXCEPT !.st = update_all(st2, prepare(s, st2, f.odb, f.refs).ups)]

\* step(state, cx, step)
step(st, store, odb, s, adv, net, missing) ==
    step_fetched(st, s, run_fetch(s, store, odb, adv, net, missing))

(***************************************************************************)
(* Helpers of the evaluator that read the stores through the Shim.         *)
(***************************************************************************)
\* track::Rel: track `peer` in the context of `urn` ("" is the current URN)
Rel(peer, urn) == [peer |-> peer, urn |-> urn]

\* Tracking::tracked of the persistent store (current URN)
tracked(trk) == {r.peer : r \in {x \in trk : x.urn = ""}}

\* The delegation tips the local store resolves: refs/rad/ids/<urn>
LocalDelegations(st, store) ==
    [urn \in {u \in {DelegateUrn} :
                 shim_refname_to_id(st, store, RadIds(u)) \notin {NoOid, -1}}
        |-> shim_refname_to_id(st, store, RadIds(urn))]

\* ids::current: the verified identity at the local refs/rad/id;
\* 0 is None, -1 a verification error.
current(st, store, odb) ==
    LET tip == shim_refname_to_id(st, store, RadId)
    IN  IF tip = NoOid THEN 0
        ELSE IF tip = -1 \/ verify(odb, tip, LocalDelegations(st, store)) = 0 THEN -1
        ELSE tip

\* peek::for_fetch: the ForFetch step for the anchor identity
for_fetch(trk, anchor, remote_id) ==
    ForFetch(LocalId, remote_id, Delegates(anchor), tracked(trk) \ Delegates(anchor))

\* ids::newest: the newest of the identities at the rad/id tips of the
\* delegates, with the peer it was found at.
RECURSIVE newest_fold(_, _, _, _, _)
newest_fold(st, store, odb, ds, acc) ==
    IF ds = <<>> \/ acc.err # "" THEN acc
    ELSE LET d   == Head(ds)
             tip == shim_refname_to_id(st, store, remote_tracking(d, RadId))
             v   == IF tip \in {NoOid, -1} THEN tip
                    ELSE verify(odb, tip, lookup_delegations(st, d))
         IN  IF tip = NoOid THEN newest_fold(st, store, odb, Tail(ds), acc)
             ELSE IF tip = -1 \/ v = 0 THEN [acc EXCEPT !.err = "Verification"]
             ELSE IF acc.id = 0
             THEN newest_fold(st, store, odb, Tail(ds), [acc EXCEPT !.id = v, !.peer = d])
             ELSE LET n == newer(odb, acc.id, v)
                  IN  IF n.err # "" THEN [acc EXCEPT !.err = "IdentityHistory"]
                      ELSE newest_fold(st, store, odb, Tail(ds),
                                       IF n.id = acc.id THEN acc
                                       ELSE [acc EXCEPT !.id = v, !.peer = d])

newest(st, store, odb, delegates) ==
    newest_fold(st, store, odb, SortedSeq(delegates),
                [err |-> "", id |-> 0, peer |-> NoPeer])

\* rad::setup: the tracking relationships and the updates of the local
\* rad/ hierarchy for the identity `id`.
setup(st, store, id) ==
    [track |-> [i \in 1..Len(SortedSeq(Delegates(id) \ {LocalId})) |->
                   Rel(SortedSeq(Delegates(id) \ {LocalId})[i], "")],
     up    |-> <<Direct(RadId, id, "Abort")>>
               \o [i \in 1..Cardinality(DelegateUrns(id)) |->
                      SymbolicUpdate(RadIds(DelegateUrn), namespaced(DelegateUrn, RadId),
                                     id, "Allow")]]

\* validate: one warning per signed (peer, refname) whose local tip is not
\* the signed tip.
validate(st, store, comb) ==
    {w \in {[peer |-> p, name |-> n] :
                p \in DOMAIN comb.refs, n \in {Main}} :
        /\ w.name \in DOMAIN comb.refs[w.peer].refs
        /\ shim_refname_to_id(st, store, remote_tracking(w.peer, w.name))
              # comb.refs[w.peer].refs[w.name]}

\* The local signed manifest SignedRefs::update computes from the refs.
ComputeSigrefs(store, trk) ==
    [refs    |-> {<<n, refname_to_id(store, n)>> :
                     n \in {m \in {Main} : refname_to_id(store, m) \notin {NoOid, -1}}},
     remotes |-> tracked(trk)]

(***************************************************************************)
(* The state of one replication run.                                       *)
(***************************************************************************)
VARIABLES
    mode,        \* "pull" or "clone": the entry point of lib.rs that is run
    remote_id,   \* the peer replicated from
    pc,          \* the position of the evaluator
    result,      \* <<"", "-">> while running, then <<"Success", "-">> or the
                 \* error and the peer it names ("-" if it names none)
    state,       \* the FetchState of the run
    anchor,      \* the anchor identity handed to eval::pull (0: none)
    forfetch,    \* the ForFetch step (local_id, remote_id, delegates, tracked)
    skip,        \* the SkippedFetch of the ForFetch step ("" if none)
    signed_refs, \* the combined signed refs in use
    success,     \* the fields of Success: applied, requires_confirmation, validation
    refdb,       \* the persistent reference database (full name -> target)
    trackings,   \* the persistent tracking store
    sigrefs,     \* the local signed-refs manifest
    odb,         \* the object database
    log,         \* the operations performed, in order, each skip or transaction
                 \* error following the operation that reported it
    streams,     \* the number of byte streams opened
    before,      \* refdb, trackings and sigrefs as they were before the run
    updates,     \* the batch Refdb::update was or is called with
    tx,          \* what that call of Refdb::update returned
    config,      \* the Config of net::Replication (slots, wait_slot)
    permits,     \* the free permits of the semaphore Replication::slots
    call,        \* the position of each caller's replicate future
    task,        \* the blocking task each call has spawned
    waited,      \* the time each caller has spent waiting for a slot
    args,        \* the arguments a caller hands to the ref name functions
    out,         \* the function applied to them and the values it returned
    proc,        \* a process started by the service manager: its environment,
                 \* its open file descriptors and their close-on-exec flags
    sd           \* what Systemd::from_env and activate returned in it

vars == <<mode, remote_id, pc, result, state, anchor, forfetch, skip, signed_refs,
          success, refdb, trackings, sigrefs, odb, log, streams, before,
          debug_assertions, updates, tx, config, permits, call, task, waited,
          args, out, proc, sd>>

limiter == <<config, permits, call, task, waited>>
names == <<args, out>>
activation == <<proc, sd>>
started == <<mode, remote_id, before, debug_assertions, tx, limiter, names, activation>>
run == <<started, updates>>
persistent == <<refdb, trackings, sigrefs>>

NoSuccess == [applied |-> NoApplied, requires_confirmation |-> FALSE, validation |-> {}]

\* No ref name function has been called.
NoArgs == [p |-> NoPeer, q |-> NoPeer, u1 |-> "", u2 |-> "", n |-> NoName]
NoOut == [op |-> "", vals |-> <<>>]
NoNames == args = NoArgs /\ out = NoOut

\* An environment variable: unset, or set to a string (a sequence of
\* characters).
Unset == [set |-> FALSE, val |-> <<>>]
Set(str) == [set |-> TRUE, val |-> str]
EnvVars == {"LISTEN_PID", "LISTEN_FDS", "LISTEN_FDNAMES"}

\* No process with socket activation is looked at.
NoSd == [called |-> FALSE, err |-> "", fds |-> EmptyMap, activated |-> <<>>]
NoProc == [inherited |-> [v \in EnvVars |-> Unset],
           environ |-> [v \in EnvVars |-> Unset], open |-> {}, cloexec |-> {}]
NoActivation == proc = NoProc /\ sd = NoSd

\* The callers of Replication::replicate.
NumCallers == 2
Callers == 1..NumCallers

\* Config::default of net::Replication (the fetch limits are left out).
Config_default == [slots |-> 4, wait_slot |-> 5]

\* Replication::new(config) with no call of replicate made.
NoCalls(cfg) ==
    /\ config = cfg
    /\ permits = cfg.slots
    /\ call = [c \in Callers |-> "idle"]
    /\ task = [c \in Callers |-> "none"]
    /\ waited = [c \in Callers |-> 0]

\* Refdb::update has not been called on its own.
NoTx == [called |-> FALSE, lock_ok |-> TRUE, err |-> "", applied |-> NoApplied]

(***************************************************************************)
(* The stores a run can start from and what the remote can advertise.      *)
(***************************************************************************)
\* A map from the pairs <<name, tip>> whose tip is not 0.
AdvOf(S) ==
    [n \in {q[1] : q \in {x \in S : x[2] # NoOid}} |->
        (CHOOSE q \in S : q[1] = n /\ q[2] # NoOid)[2]]

Offset(base, n) == IF n = 0 THEN NoOid ELSE base + n

\* The local store: `a` is the identity at refs/rad/id (0: none), `ka` the
\* signed-refs commit known of peer A (0: nothing is known of A), `ha` the
\* local tip of A's refs/heads/main (0: none).  An identity with an
\* indirect delegation has its refs/rad/ids/<urn>, a symref to rad/id in
\* the namespace of that URN.
InitStore(a, ka, ha) ==
    LET m == AdvOf({
            <<Namespaced(RadId), a>>,
            <<Namespaced(remote_tracking(PeerA, RadId)),
              IF ka = 0 THEN NoOid ELSE IF a = 0 THEN 1 ELSE a>>,
            <<Namespaced(remote_tracking(PeerA, RadSelf)), IF ka = 0 THEN NoOid ELSE 1>>,
            <<Namespaced(remote_tracking(PeerA, RadSignedRefs)), Offset(SigBase, ka)>>,
            <<Namespaced(remote_tracking(PeerA, Main)),
              IF ka = 0 THEN NoOid ELSE Offset(DataBase, ha)>>})
        ids == IF DelegateUrns(a) = {} THEN {}
               ELSE {Namespaced(RadIds(DelegateUrn)), namespaced(DelegateUrn, RadId)}
    IN  [n \in DOMAIN m \cup ids |->
            IF n \in DOMAIN m THEN Peeled(m[n])
            ELSE IF n = namespaced(DelegateUrn, RadId) THEN Peeled(1)
            ELSE Symbolic(namespaced(DelegateUrn, RadId))]

StoreOids(store) == {store[n].oid : n \in DOMAIN store} \ {NoOid}

\* Storage::has_urn: the store has the rad/id of the URN.
has_urn(store, urn) == namespaced(urn, RadId) \in DOMAIN store

\* The runs that are started: a pull or a clone from peer A into a local
\* store, a pull and a clone from the local peer itself, and
\* Replication::replicate from peer A into the same stores.
Scenarios ==
    {[mode |-> m, remote_id |-> LocalId, refdb |-> InitStore(1, 0, 0), trackings |-> {}] :
        m \in {"pull", "clone"}}
    \cup
    {[mode |-> "pull", remote_id |-> PeerA, refdb |-> InitStore(a, k[1], k[2]),
      trackings |-> t] :
        a \in 0..2, k \in {<<0, 0>>, <<1, 1>>, <<1, 3>>, <<2, 2>>},
        t \in {{}, {Rel(PeerB, "")}}}
    \cup
    {[mode |-> "clone", remote_id |-> PeerA, refdb |-> InitStore(0, k[1], k[2]),
      trackings |-> {}] :
        k \in {<<0, 0>>, <<1, 1>>}}
    \cup
    {[mode |-> "replicate", remote_id |-> PeerA, refdb |-> InitStore(0, k[1], k[2]),
      trackings |-> {}] :
        k \in {<<0, 0>>, <<1, 1>>}}
    \cup
    {[mode |-> "replicate", remote_id |-> PeerA, refdb |-> InitStore(a, k[1], k[2]),
      trackings |-> t] :
        a \in 1..2, k \in {<<0, 0>>, <<1, 1>>, <<1, 3>>, <<2, 2>>},
        t \in {{}, {Rel(PeerB, "")}}}

\* What ls-refs can return in a peek step: the rad/ refs of the remote
\* peer A (identity `ia`, with or without rad/self, signed refs `sa`, with
\* or without the delegation rad/ids/<urn> its identity names), and the
\* rad/ refs A has of peer B and of the local peer.
PeekAdverts ==
    {AdvOf({<<RadId, ia>>,
            <<RadSelf, IF ia # 0 /\ v # "noself" THEN 1 ELSE NoOid>>,
            <<RadSignedRefs, Offset(SigBase, sa)>>,
            <<RadIds(DelegateUrn),
              IF DelegateUrns(ia) # {} /\ v # "noids" THEN 1 ELSE NoOid>>,
            <<remote_tracking(PeerB, RadId), b[1]>>,
            <<remote_tracking(PeerB, RadSelf), b[1]>>,
            <<remote_tracking(PeerB, RadSignedRefs), Offset(SigBase, b[2])>>,
            <<remote_tracking(LocalId, RadId), b[1]>>}) :
        ia \in 0..MaxOid, v \in {"", "noself", "noids"}, sa \in 0..MaxSigTip,
        b \in {<<0, 0>>, <<1, 0>>, <<1, 1>>}}

\* What ls-refs can return in the data step: refs/heads/main of A, and the
\* heads A has of peer B and of the local peer, a ref of an unknown
\* category, and rad/ refs of A and of B that have moved since the peek.
DataAdverts ==
    {AdvOf({<<Main, Offset(DataBase, ha)>>,
            <<remote_tracking(PeerB, Main), Offset(DataBase, hb)>>,
            <<remote_tracking(LocalId, Main), Offset(DataBase, hb)>>,
            <<<<"refs", "cobs", "x">>, Offset(DataBase, hb)>>,
            <<RadId, 2 * hb>>,
            <<RadSignedRefs, Offset(SigBase, 2 * hb)>>,
            <<remote_tracking(PeerB, RadSignedRefs), Offset(SigBase, 2 * hb)>>,
            <<remote_tracking(PeerB, RadIds(DelegateUrn)), hb>>}) :
        ha \in 0..MaxOid, hb \in 0..1}

\* The ways the network can fail a step: 0 not at all, 1 / 2 the first /
\* second stream cannot be opened, 3 / 4 the run is cancelled while it
\* waits for the first / second stream.
NetFailures == 0..4

\* The objects a pack can lack: none, or the tip of one advertised ref.
Lacking(adv) == {NoOid} \cup {adv[n] : n \in DOMAIN adv}

\* What the remote and the network do in one step: the refs advertised,
\* and either a network failure or the object the pack lacks.
Environments(adverts) ==
    {[adv |-> adv, net |-> net, missing |-> NoOid] :
        adv \in adverts, net \in NetFailures}
    \cup UNION {{[adv |-> adv, net |-> 0, missing |-> m] : m \in Lacking(adv)} :
                   adv \in adverts}

Init ==
    /\ \E sc \in Scenarios :
         /\ mode = sc.mode
         /\ remote_id = sc.remote_id
         /\ refdb = sc.refdb
         /\ trackings = sc.trackings
    /\ sigrefs = ComputeSigrefs(refdb, trackings)
    /\ odb = Closure(StoreOids(refdb))
    /\ before = <<refdb, trackings, sigrefs>>
    /\ debug_assertions \in BOOLEAN
    /\ updates = <<>>
    /\ tx = NoTx
    /\ NoCalls(Config_default)
    /\ NoNames
    /\ NoActivation
    /\ pc = IF mode = "replicate" THEN "replicate" ELSE "start"
    /\ result = <<"", NoPeer>>
    /\ state = FetchStateDefault
    /\ anchor = 0
    /\ forfetch = ForFetch(LocalId, remote_id, {}, {})
    /\ skip = ""
    /\ signed_refs = NoCombined
    /\ success = NoSuccess
    /\ log = <<>>
    /\ streams = 0

(***************************************************************************)
(* The evaluator: lib.rs pull / clone and eval/pull.rs.                    *)
(***************************************************************************)
\* The run ends with `r`: an error, or the Success `s`.
Finish(r, s) ==
    /\ pc' = "done"
    /\ result' = <<r, NoPeer>>
    /\ success' = s

Fail(r) == Finish(r, NoSuccess)

\* The run ends with a sigrefs error that names a peer.
FailAt(r, peer) ==
    /\ pc' = "done"
    /\ result' = <<r, peer>>
    /\ success' = NoSuccess

\* What a step did to the object database and the network.
Stepped(name, r) ==
    /\ odb' = r.odb
    /\ streams' = streams + r.streams
    /\ log' = log \o <<name>> \o r.log

\* A task that pulls when the store lacks the URN and clones when it has it.
ReplicateTaskSwapped ==
    /\ pc = "replicate"
    /\ UNCHANGED <<remote_id, before, debug_assertions, updates, tx, limiter, names,
                   activation, state, anchor, forfetch, skip, signed_refs, persistent,
                   odb, log, streams>>
    /\ \E failed \in BOOLEAN :
          IF failed THEN Fail("Storage") /\ UNCHANGED mode
          ELSE /\ mode' = IF has_urn(refdb, Urn) THEN "clone" ELSE "pull"
               /\ pc' = "start"
               /\ UNCHANGED <<result, success>>

\* The task Replication::replicate hands to the spawner, up to its call of
\* pull or clone: has_urn or Context::new can fail.
ReplicateTask ==
    /\ pc = "replicate"
    /\ UNCHANGED <<remote_id, before, debug_assertions, updates, tx, limiter, names,
                   activation, state, anchor, forfetch, skip, signed_refs, persistent,
                   odb, log, streams>>
    /\ \E failed \in BOOLEAN :
          IF failed THEN Fail("Storage") /\ UNCHANGED mode
          ELSE /\ mode' = IF has_urn(refdb, Urn) THEN "pull" ELSE "clone"
               /\ pc' = "start"
               /\ UNCHANGED <<result, success>>

\* A pull that does not compare the remote with the local peer id.
PullFromSelf ==
    /\ pc = "start" /\ mode = "pull"
    /\ UNCHANGED <<run, state, forfetch, skip, signed_refs, persistent, odb, log, streams>>
    /\ \E cur \in {current(FetchStateDefault, refdb, odb)} :
           IF cur = -1 THEN Fail("Verification") /\ UNCHANGED anchor
           ELSE IF cur = 0 THEN Fail("pull: missing rad/id") /\ UNCHANGED anchor
           ELSE /\ anchor' = cur
                /\ pc' = "peek"
                /\ UNCHANGED <<result, success>>

\* A pull that goes on without a local anchor.
PullUnanchored ==
    /\ pc = "start" /\ mode = "pull"
    /\ UNCHANGED <<run, state, forfetch, skip, signed_refs, persistent, odb, log, streams>>
    /\ IF LocalId = remote_id
       THEN Fail("cannot replicate from self") /\ UNCHANGED anchor
       ELSE \E cur \in {current(FetchStateDefault, refdb, odb)} :
                IF cur = -1 THEN Fail("Verification") /\ UNCHANGED anchor
                ELSE /\ anchor' = cur
                     /\ pc' = "peek"
                     /\ UNCHANGED <<result, success>>

\* lib.rs pull: the precondition and the local anchor
Pull ==
    /\ pc = "start" /\ mode = "pull"
    /\ UNCHANGED <<run, state, forfetch, skip, signed_refs, persistent, odb, log, streams>>
    /\ IF LocalId = remote_id
       THEN Fail("cannot replicate from self") /\ UNCHANGED anchor
       ELSE \E cur \in {current(FetchStateDefault, refdb, odb)} :
                IF cur = -1 THEN Fail("Verification") /\ UNCHANGED anchor
                ELSE IF cur = 0 THEN Fail("pull: missing rad/id") /\ UNCHANGED anchor
                ELSE /\ anchor' = cur
                     /\ pc' = "peek"
                     /\ UNCHANGED <<result, success>>

\* lib.rs clone: the precondition, the ForClone step and the anchor
Clone ==
    /\ pc = "start" /\ mode = "clone"
    /\ UNCHANGED <<run, forfetch, skip, signed_refs, persistent>>
    /\ IF LocalId = remote_id
       THEN /\ Fail("cannot replicate from self")
            /\ UNCHANGED <<state, anchor, odb, log, streams>>
       ELSE \E env \in Environments(PeekAdverts) :
            \E r \in {step(FetchStateDefault, refdb, odb, ForClone(remote_id),
                            env.adv, env.net, env.missing)} :
            \E v \in {verify(r.odb, id_tip(r.st, remote_id),
                              lookup_delegations(r.st, remote_id))} :
              /\ Stepped("ForClone", r)
              /\ IF r.err # ""
                 THEN Fail(r.err) /\ UNCHANGED <<state, anchor>>
                 ELSE IF id_tip(r.st, remote_id) = NoOid
                 THEN Fail("Panic") /\ UNCHANGED <<state, anchor>>
                 ELSE IF v = 0
                 THEN Fail("Verification") /\ UNCHANGED <<state, anchor>>
                 ELSE /\ state' = r.st
                      /\ anchor' = v
                      /\ pc' = "peek"
                      /\ UNCHANGED <<result, success>>

\* A ForFetch step after which the run goes on whatever skip it reports.
PeekNoEarlyReturn ==
    /\ pc = "peek"
    /\ UNCHANGED <<run, anchor, signed_refs, persistent>>
    /\ \E env \in Environments(PeekAdverts) :
       \E s \in {for_fetch(trackings, anchor, remote_id)} :
       \E r \in {step(state, refdb, odb, s, env.adv, env.net, env.missing)} :
             /\ Stepped("ForFetch", r)
             /\ IF r.err # ""
                THEN Fail(r.err) /\ UNCHANGED <<state, forfetch, skip>>
                ELSE /\ state' = r.st
                     /\ forfetch' = [s EXCEPT !.delegates = @ \ {LocalId}]
                     /\ skip' = r.skip
                     /\ pc' = "rad"
                     /\ UNCHANGED <<result, success>>

\* eval::pull: the ForFetch step and the early return on NoMatchingRefs
Peek ==
    /\ pc = "peek"
    /\ UNCHANGED <<run, anchor, signed_refs, persistent>>
    /\ \E env \in Environments(PeekAdverts) :
       \E s \in {for_fetch(trackings, anchor, remote_id)} :
       \E r \in {step(state, refdb, odb, s, env.adv, env.net, env.missing)} :
             /\ Stepped("ForFetch", r)
             /\ IF r.err # ""
                THEN Fail(r.err) /\ UNCHANGED <<state, forfetch, skip>>
                ELSE IF r.skip = "NoMatchingRefs"
                THEN Finish("Success", NoSuccess) /\ UNCHANGED <<state, forfetch, skip>>
                ELSE /\ state' = r.st
                     /\ forfetch' = [s EXCEPT !.delegates = @ \ {LocalId}]
                     /\ skip' = r.skip
                     /\ pc' = "rad"
                     /\ UNCHANGED <<result, success>>

\* The rad/ setup run whether or not the ForFetch step was skipped.
RadAlways ==
    /\ pc = "rad"
    /\ UNCHANGED <<run, anchor, forfetch, skip, signed_refs, persistent, odb, log, streams>>
    /\ \E n \in {newest(state, refdb, odb, forfetch.delegates)} :
       \E nw \in {newer(odb, anchor, n.id)} :
       \E rad \in {setup(state, refdb, nw.id)} :
           IF n.err # "" THEN Fail(n.err) /\ UNCHANGED state
           ELSE IF n.id = 0
           THEN pc' = "combined" /\ UNCHANGED <<state, result, success>>
           ELSE IF nw.err = "Fork"
           THEN /\ success' = [success EXCEPT !.requires_confirmation = TRUE]
                /\ pc' = "combined"
                /\ UNCHANGED <<state, result>>
           ELSE IF nw.err # "" THEN Fail("IdentityHistory") /\ UNCHANGED state
           ELSE /\ state' = update_all(track_all(state, rad.track), rad.up)
                /\ pc' = "combined"
                /\ UNCHANGED <<result, success>>

\* The rad/ setup applied to the persistent tracking store at once rather
\* than queued in the FetchState.
RadEager ==
    /\ pc = "rad"
    /\ UNCHANGED <<run, anchor, forfetch, skip, signed_refs, refdb, sigrefs, odb, log,
                   streams>>
    /\ IF skip # ""
       THEN pc' = "combined" /\ UNCHANGED <<state, trackings, result, success>>
       ELSE \E n \in {newest(state, refdb, odb, forfetch.delegates)} :
            \E nw \in {newer(odb, anchor, n.id)} :
            \E rad \in {setup(state, refdb, nw.id)} :
                IF n.err # "" THEN Fail(n.err) /\ UNCHANGED <<state, trackings>>
                ELSE IF n.id = 0
                THEN pc' = "combined" /\ UNCHANGED <<state, trackings, result, success>>
                ELSE IF nw.err = "Fork"
                THEN /\ success' = [success EXCEPT !.requires_confirmation = TRUE]
                     /\ pc' = "combined"
                     /\ UNCHANGED <<state, trackings, result>>
                ELSE IF nw.err # ""
                THEN Fail("IdentityHistory") /\ UNCHANGED <<state, trackings>>
                ELSE /\ state' = update_all(state, rad.up)
                     /\ trackings' = trackings \cup {rad.track[i] : i \in DOMAIN rad.track}
                     /\ pc' = "combined"
                     /\ UNCHANGED <<result, success>>

\* eval::pull: setting up the local rad/ hierarchy
Rad ==
    /\ pc = "rad"
    /\ UNCHANGED <<run, anchor, forfetch, skip, signed_refs, persistent, odb, log, streams>>
    /\ IF skip # ""
       THEN pc' = "combined" /\ UNCHANGED <<state, result, success>>
       ELSE \E n \in {newest(state, refdb, odb, forfetch.delegates)} :
            \E nw \in {newer(odb, anchor, n.id)} :
            \E rad \in {setup(state, refdb, nw.id)} :
                IF n.err # "" THEN Fail(n.err) /\ UNCHANGED state
                ELSE IF n.id = 0
                THEN pc' = "combined" /\ UNCHANGED <<state, result, success>>
                ELSE IF nw.err = "Fork"
                THEN /\ success' = [success EXCEPT !.requires_confirmation = TRUE]
                     /\ pc' = "combined"
                     /\ UNCHANGED <<state, result>>
                ELSE IF nw.err # "" THEN Fail("IdentityHistory") /\ UNCHANGED state
                ELSE /\ state' = update_all(track_all(state, rad.track), rad.up)
                     /\ pc' = "combined"
                     /\ UNCHANGED <<result, success>>

\* The depth of the tracking graph the evaluator asks for.
Cutoff == 2

\* The results of SignedRefs::load through the Shim for every peer; the
\* load of `failing` ends with a store error.
Loads(failing) ==
    [p \in Peers |-> IF p = failing THEN SigrefsErr
                     ELSE shim_load(state, refdb, odb, p, Cutoff)]

\* eval::pull: loading the combined sigrefs
Combined ==
    /\ pc = "combined"
    /\ UNCHANGED <<run, state, anchor, forfetch, skip, persistent, odb, log, streams>>
    /\ \E failing \in Peers \cup {NoPeer} :
       \E c \in {combined(Loads(failing), forfetch.delegates, forfetch.tracked)} :
             IF c.err # ""
             THEN FailAt(c.err, c.peer) /\ UNCHANGED signed_refs
             ELSE /\ signed_refs' = c
                  /\ pc' = "data"
                  /\ UNCHANGED <<result, success>>

\* eval::pull: the Fetch step
Data ==
    /\ pc = "data"
    /\ UNCHANGED <<run, anchor, forfetch, skip, signed_refs, persistent>>
    /\ \E env \in Environments(DataAdverts) :
       \E r \in {step(state, refdb, odb, Fetch(LocalId, remote_id, signed_refs),
                       env.adv, env.net, env.missing)} :
             /\ Stepped("Fetch", r)
             /\ IF r.err # ""
                THEN Fail(r.err) /\ UNCHANGED state
                ELSE /\ state' = r.st
                     /\ pc' = "reload"
                     /\ UNCHANGED <<result, success>>

\* eval::pull: reloading the combined sigrefs
Reload ==
    /\ pc = "reload"
    /\ UNCHANGED <<run, state, anchor, forfetch, skip, persistent, odb, log, streams>>
    /\ \E failing \in Peers \cup {NoPeer} :
       \E c \in {combined(Loads(failing), forfetch.delegates, forfetch.tracked)} :
             IF c.err # ""
             THEN FailAt(c.err, c.peer) /\ UNCHANGED signed_refs
             ELSE /\ signed_refs' = c
                  /\ pc' = "validate"
                  /\ UNCHANGED <<result, success>>

\* A post-validation that reports no warning.
ValidateNoWarnings ==
    /\ pc = "validate"
    /\ UNCHANGED <<run, state, anchor, forfetch, skip, signed_refs, persistent, odb,
                   streams, result>>
    /\ success' = [success EXCEPT !.validation = {}]
    /\ log' = Append(log, "validate")
    /\ pc' = "trackings"

\* eval::pull: post-validation
Validate ==
    /\ pc = "validate"
    /\ UNCHANGED <<run, state, anchor, forfetch, skip, signed_refs, persistent, odb,
                   streams, result>>
    /\ success' = [success EXCEPT !.validation = validate(state, refdb, signed_refs)]
    /\ log' = Append(log, "validate")
    /\ pc' = "trackings"

\* eval::pull: draining the trackings into the persistent tracking store;
\* the Tracking::track call number `failing` fails (0: none does).
Track ==
    /\ pc = "trackings"
    /\ UNCHANGED <<run, anchor, forfetch, skip, signed_refs, refdb, sigrefs, odb, streams>>
    /\ \E failing \in 0..Len(state.trks) :
       \E n \in {IF failing = 0 THEN Len(state.trks) ELSE failing - 1} :
             /\ trackings' = trackings \cup {state.trks[i] : i \in 1..n}
             /\ state' = [state EXCEPT !.trks = <<>>]
             /\ log' = log \o [i \in 1..(IF failing = 0 THEN n ELSE n + 1) |-> "track"]
             /\ IF failing = 0
                THEN pc' = "tips" /\ UNCHANGED <<result, success>>
                ELSE Fail("Tracking")

\* A final commit whose failure does not end the run.
UpdateIgnoringFailure ==
    /\ pc = "tips"
    /\ UNCHANGED <<started, anchor, forfetch, skip, signed_refs, trackings, sigrefs, odb,
                   streams>>
    /\ \E lock_ok \in BOOLEAN :
       \E u \in {update(refdb, odb, state.tips, lock_ok)} :
             /\ updates' = state.tips
             /\ state' = [state EXCEPT !.tips = <<>>]
             /\ log' = log \o <<"update">> \o (IF u.err # "" THEN <<u.err>> ELSE <<>>)
             /\ refdb' = u.store
             /\ success' = [success EXCEPT !.applied = u.applied]
             /\ pc' = "signed_refs"
             /\ UNCHANGED result

\* A final commit that does not report what it applied.
UpdateUnreported ==
    /\ pc = "tips"
    /\ UNCHANGED <<started, anchor, forfetch, skip, signed_refs, trackings, sigrefs, odb,
                   streams>>
    /\ \E lock_ok \in BOOLEAN :
       \E u \in {update(refdb, odb, state.tips, lock_ok)} :
             /\ updates' = state.tips
             /\ state' = [state EXCEPT !.tips = <<>>]
             /\ log' = log \o <<"update">> \o (IF u.err # "" THEN <<u.err>> ELSE <<>>)
             /\ refdb' = u.store
             /\ IF u.err # ""
                THEN Fail(u.err)
                ELSE /\ pc' = "signed_refs"
                     /\ UNCHANGED <<result, success>>

\* eval::pull: draining the updates into the persistent Refdb::update
Update ==
    /\ pc = "tips"
    /\ UNCHANGED <<started, anchor, forfetch, skip, signed_refs, trackings, sigrefs, odb,
                   streams>>
    /\ \E lock_ok \in BOOLEAN :
       \E u \in {update(refdb, odb, state.tips, lock_ok)} :
             /\ updates' = state.tips
             /\ state' = [state EXCEPT !.tips = <<>>]
             /\ log' = log \o <<"update">> \o (IF u.err # "" THEN <<u.err>> ELSE <<>>)
             /\ refdb' = u.store
             /\ IF u.err # ""
                THEN Fail(u.err)
                ELSE /\ success' = [success EXCEPT !.applied = u.applied]
                     /\ pc' = "signed_refs"
                     /\ UNCHANGED result

\* eval::pull: SignedRefs::update and the return of Success
SignedRefsUpdate ==
    /\ pc = "signed_refs"
    /\ UNCHANGED <<run, state, anchor, forfetch, skip, signed_refs, refdb, trackings,
                   odb, streams>>
    /\ log' = Append(log, "signed_refs")
    /\ \E outcome \in {"", "Contended", "Refs"} :
         IF outcome = ""
         THEN /\ sigrefs' = ComputeSigrefs(refdb, trackings)
              /\ Finish("Success", success)
         ELSE /\ UNCHANGED sigrefs
              /\ Fail(outcome)

Next ==
    \/ ReplicateTask
    \/ Pull
    \/ Clone
    \/ Peek
    \/ Rad
    \/ Combined
    \/ Data
    \/ Reload
    \/ Validate
    \/ Track
    \/ Update
    \/ SignedRefsUpdate

Spec == Init /\ [][Next]_vars

TypeOK ==
    /\ pc \in {"replicate", "start", "peek", "rad", "combined", "data", "reload", "validate",
               "trackings", "tips", "signed_refs", "done"}
    /\ streams \in 0..6

(***************************************************************************)
(* Refdb::update called on its own (refdb.rs, io/refdb.rs): any batch of   *)
(* updates on any store.                                                   *)
(***************************************************************************)
\* The longest batch handed to Refdb::update.
MaxBatch == 2

TrackA == remote_tracking(PeerA, Main)
TrackB == remote_tracking(PeerB, Main)

\* The stores the call finds: the local identity with or without an
\* indirect delegation (refs/rad/ids/<urn> is then a symref), and peer A's
\* refs/heads/main missing, at the first or at the second data commit.
RefdbStores ==
    {InitStore(a, k[1], k[2]) : a \in {1, 2}, k \in {<<0, 0>>, <<1, 1>>, <<1, 2>>}}

\* The updates of a batch: direct updates of A's head (to the first three
\* data commits) and of B's head, which no store has, under every policy;
\* the symref refs/rad/ids/<urn>; a symref in the place of A's head, under
\* every policy; and a symref whose target is refs/rad/ids/<urn>.
RefdbUpdates ==
    {Direct(TrackA, DataBase + t, p) : t \in 1..3, p \in Policies}
    \cup {Direct(TrackB, DataBase + 1, p) : p \in Policies}
    \cup {SymbolicUpdate(RadIds(DelegateUrn), namespaced(DelegateUrn, RadId), t, "Allow") :
             t \in 1..2}
    \cup {SymbolicUpdate(TrackA, namespaced(DelegateUrn, RadId), 1, p) :
             p \in Policies}
    \cup {SymbolicUpdate(remote_tracking(PeerA, RadIds(DelegateUrn)),
                          Namespaced(RadIds(DelegateUrn)), 1, "Allow")}

Batches == UNION {[1..n -> RefdbUpdates] : n \in 1..MaxBatch}

InitRefdb ==
    /\ mode = "update"
    /\ remote_id = PeerA
    /\ refdb \in RefdbStores
    /\ updates \in Batches
    /\ tx = NoTx
    /\ trackings = {}
    /\ sigrefs = ComputeSigrefs(refdb, trackings)
    /\ odb = Oids
    /\ before = <<refdb, trackings, sigrefs>>
    /\ debug_assertions = FALSE
    /\ NoCalls(Config_default)
    /\ NoNames
    /\ NoActivation
    /\ pc = "tips"
    /\ result = <<"", NoPeer>>
    /\ state = FetchStateDefault
    /\ anchor = 0
    /\ forfetch = ForFetch(LocalId, remote_id, {}, {})
    /\ skip = ""
    /\ signed_refs = NoCombined
    /\ success = NoSuccess
    /\ log = <<>>
    /\ streams = 0

\* Refdb::update(updates)
RefdbUpdate ==
    /\ mode = "update" /\ ~tx.called
    /\ \E lock_ok \in BOOLEAN :
       \E u \in {update(refdb, odb, updates, lock_ok)} :
             /\ refdb' = u.store
             /\ tx' = [called |-> TRUE, lock_ok |-> lock_ok, err |-> u.err,
                       applied |-> u.applied]
    /\ UNCHANGED <<mode, remote_id, pc, result, state, anchor, forfetch, skip,
                   signed_refs, success, trackings, sigrefs, odb, log, streams,
                   before, debug_assertions, updates, limiter, names, activation>>

NextRefdb == RefdbUpdate

SpecRefdb == InitRefdb /\ [][NextRefdb]_vars

(***************************************************************************)
(* Concurrent callers of Replication::replicate (librad                    *)
(* net/replication.rs): each call acquires a slot of the semaphore, runs   *)
(* the evaluator as a blocking task, awaits it and drops the slot.         *)
(***************************************************************************)
\* The configurations: the default one, and those with at most as many
\* slots as there are callers and a short wait_slot.
MaxSlots == 2
WaitSlot == 1

Configs ==
    {Config_default}
    \cup {[slots |-> s, wait_slot |-> WaitSlot] : s \in 1..MaxSlots}

\* What the evaluator run by the blocking task ends with.
Outcomes == {"Success", "Error", "Panic"}

InitSlots ==
    /\ mode = "replicate"
    /\ \E cfg \in Configs : NoCalls(cfg)
    /\ NoNames
    /\ NoActivation
    /\ remote_id = PeerA
    /\ refdb = InitStore(1, 0, 0)
    /\ trackings = {}
    /\ sigrefs = ComputeSigrefs(refdb, trackings)
    /\ odb = Closure(StoreOids(refdb))
    /\ before = <<refdb, trackings, sigrefs>>
    /\ debug_assertions = FALSE
    /\ updates = <<>>
    /\ tx = NoTx
    /\ pc = "start"
    /\ result = <<"", NoPeer>>
    /\ state = FetchStateDefault
    /\ anchor = 0
    /\ forfetch = ForFetch(LocalId, remote_id, {}, {})
    /\ skip = ""
    /\ signed_refs = NoCombined
    /\ success = NoSuccess
    /\ log = <<>>
    /\ streams = 0

replication == <<mode, remote_id, pc, result, state, anchor, forfetch, skip, signed_refs,
                 success, refdb, trackings, sigrefs, odb, log, streams, before,
                 debug_assertions, updates, tx>>
evaluator == <<replication, names, activation>>

\* The await of Spawner::blocking(f): pending while the task runs, then
\* the value f returned; a panic of f is raised again in the awaiting call.
blocking(t) ==
    IF t \in {"Success", "Error"} THEN [ready |-> TRUE, panic |-> FALSE]
    ELSE IF t = "Panic" THEN [ready |-> TRUE, panic |-> TRUE]
    ELSE [ready |-> FALSE, panic |-> FALSE]

\* replicate is called: the future is at self.slots.acquire_arc().await
Replicate(c) ==
    /\ mode = "replicate" /\ call[c] = "idle"
    /\ call' = [call EXCEPT ![c] = "acquire"]
    /\ UNCHANGED <<evaluator, config, permits, task, waited>>

\* acquire_arc() returns a slot, and spawner.blocking hands the closure
\* that runs the evaluator to the blocking pool.
Acquire(c) ==
    /\ call[c] = "acquire" /\ permits > 0
    /\ permits' = permits - 1
    /\ call' = [call EXCEPT ![c] = "blocking"]
    /\ task' = [task EXCEPT ![c] = "running"]
    /\ waited' = [waited EXCEPT ![c] = 0]
    /\ UNCHANGED <<evaluator, config>>

\* Time passes while no slot is free, for the callers that wait for one
\* (counted up to one unit past wait_slot).
Tick ==
    /\ permits = 0
    /\ \E c \in Callers : call[c] = "acquire" /\ waited[c] <= config.wait_slot
    /\ waited' = [c \in Callers |->
                     IF call[c] = "acquire" /\ waited[c] <= config.wait_slot
                     THEN waited[c] + 1 ELSE waited[c]]
    /\ UNCHANGED <<evaluator, config, permits, call, task>>

\* The closure ends: pull or clone returned Ok or Err, or panicked.  What
\* it ends with is dropped when the call that awaited it is gone.
Evaluate(c) ==
    /\ task[c] = "running"
    /\ \E o \in Outcomes :
          task' = [task EXCEPT ![c] = IF call[c] = "cancelled" THEN "none" ELSE o]
    /\ UNCHANGED <<evaluator, config, permits, call, waited>>

\* A call that a panic of the evaluator unwinds without dropping its slot.
ReturnLeakOnPanic(c) ==
    /\ call[c] = "blocking" /\ blocking(task[c]).ready
    /\ permits' = IF blocking(task[c]).panic THEN permits ELSE permits + 1
    /\ call' = [call EXCEPT ![c] = IF blocking(task[c]).panic
                                   THEN "panicked" ELSE "returned"]
    /\ UNCHANGED <<evaluator, config, task, waited>>

\* The await of the blocking task completes: drop(slot) and res is
\* returned, or the panic unwinds the call, which drops the slot as well.
Return(c) ==
    /\ call[c] = "blocking" /\ blocking(task[c]).ready
    /\ permits' = permits + 1
    /\ call' = [call EXCEPT ![c] = IF blocking(task[c]).panic
                                   THEN "panicked" ELSE "returned"]
    /\ UNCHANGED <<evaluator, config, task, waited>>

\* The future of replicate is dropped at one of its two awaits.  Dropped
\* while it waits for a slot it holds none; dropped while it awaits the
\* blocking task its slot is dropped with it, and the task is left to the
\* blocking pool.
Cancel(c) ==
    /\ call[c] \in {"acquire", "blocking"}
    /\ permits' = IF call[c] = "blocking" THEN permits + 1 ELSE permits
    /\ call' = [call EXCEPT ![c] = "cancelled"]
    /\ task' = [task EXCEPT ![c] = IF @ = "running" THEN @ ELSE "none"]
    /\ waited' = [waited EXCEPT ![c] = 0]
    /\ UNCHANGED <<evaluator, config>>

NextSlots ==
    \/ \E c \in Callers : Replicate(c)
    \/ \E c \in Callers : Acquire(c)
    \/ Tick
    \/ \E c \in Callers : Evaluate(c)
    \/ \E c \in Callers : Return(c)
    \/ \E c \in Callers : Cancel(c)

SpecSlots == InitSlots /\ [][NextSlots]_vars

\* The scheduling the calls rely on: the semaphore hands a free slot to a
\* call that keeps waiting for one, the blocking pool runs the closure,
\* whose evaluator ends, and the executor polls a call whose blocking task
\* has ended.  Nothing obliges a caller to call or to cancel.
FairSlots ==
    \A c \in Callers :
        /\ WF_vars(Acquire(c))
        /\ WF_vars(Evaluate(c))
        /\ WF_vars(Return(c))

SpecSlotsFair == InitSlots /\ [][NextSlots]_vars /\ FairSlots

(***************************************************************************)
(* The ref name functions called on their own (refs/scoped.rs,             *)
(* git-ref-format deriv.rs): any qualified name, under up to MaxNs         *)
(* namespaces.                                                             *)
(***************************************************************************)
\* The longest name before namespaces are added, and the most namespaces.
MaxLen == 5
MaxNs == 2

Components == {"refs", "remotes", "namespaces", "heads"}

\* Qualified: "refs" and at least two more components.
QualifiedNames ==
    UNION {{<<"refs">> \o t : t \in [1..k -> Components]} : k \in 2..(MaxLen - 1)}

RECURSIVE Nest(_, _, _)
Nest(k, ns, n) == IF k = 0 THEN n ELSE Nest(k - 1, ns, namespaced(ns, n))

InitNames ==
    /\ mode = "names"
    /\ \E n \in QualifiedNames, k \in 0..MaxNs, p \in {PeerA, PeerB}, u \in {Urn, DelegateUrn} :
          args = [p |-> p, q |-> PeerA, u1 |-> u, u2 |-> Urn, n |-> Nest(k, Urn, n)]
    /\ out = NoOut
    /\ NoActivation
    /\ NoCalls(Config_default)
    /\ remote_id = PeerA
    /\ refdb = InitStore(1, 0, 0)
    /\ trackings = {}
    /\ sigrefs = ComputeSigrefs(refdb, trackings)
    /\ odb = Closure(StoreOids(refdb))
    /\ before = <<refdb, trackings, sigrefs>>
    /\ debug_assertions = FALSE
    /\ updates = <<>>
    /\ tx = NoTx
    /\ pc = "start"
    /\ result = <<"", NoPeer>>
    /\ state = FetchStateDefault
    /\ anchor = 0
    /\ forfetch = ForFetch(LocalId, remote_id, {}, {})
    /\ skip = ""
    /\ signed_refs = NoCombined
    /\ success = NoSuccess
    /\ log = <<>>
    /\ streams = 0

\* A call returned a name (not None, and it did not panic).
IsName(v) == v # NoName /\ v # Panicked

\* The first call of function `op`, and a call of `op` on what the calls
\* so far returned.
First_call(op, v) ==
    /\ mode = "names" /\ out = NoOut
    /\ out' = [op |-> op, vals |-> <<v>>]
    /\ UNCHANGED <<replication, limiter, activation, args>>

\* remote_tracking(q, n)
RemoteTracking == First_call("remote_tracking", remote_tracking(args.q, args.n))

\* remote_tracking(p, remote_tracking(q, n)?)
RemoteTrackingAgain ==
    /\ out.op = "remote_tracking" /\ Len(out.vals) = 1 /\ IsName(out.vals[1])
    /\ out' = [out EXCEPT !.vals = Append(@, remote_tracking(args.p, out.vals[1]))]
    /\ UNCHANGED <<replication, limiter, activation, args>>

\* scoped(p, q, n)
Scoped == First_call("scoped", scoped(args.p, args.q, args.n))

\* owned(scoped(p, q, n))
OwnedOfScoped ==
    /\ out.op = "scoped" /\ Len(out.vals) = 1 /\ IsName(out.vals[1])
    /\ out' = [out EXCEPT !.vals = Append(@, owned(out.vals[1]))]
    /\ UNCHANGED <<replication, limiter, activation, args>>

\* namespaced(u2, q)
AddNamespace == First_call("namespaced", namespaced(args.u2, args.n))

\* namespaced(u1, namespaced(u2, q))
AddNamespaceAgain ==
    /\ out.op = "namespaced" /\ Len(out.vals) = 1
    /\ out' = [out EXCEPT !.vals = Append(@, namespaced(args.u1, out.vals[1]))]
    /\ UNCHANGED <<replication, limiter, activation, args>>

\* strip_namespace() of the name under the two namespaces
StripNamespace ==
    /\ out.op = "namespaced" /\ Len(out.vals) = 2
    /\ out' = [op |-> "strip_namespace",
               vals |-> Append(out.vals, strip_namespace(out.vals[2]))]
    /\ UNCHANGED <<replication, limiter, activation, args>>

\* strip_namespace_recursive() of the name under the two namespaces
StripNamespaceRecursive ==
    /\ out.op = "namespaced" /\ Len(out.vals) = 2
    /\ out' = [op |-> "strip_namespace_recursive",
               vals |-> Append(out.vals, strip_namespace_recursive(out.vals[2]))]
    /\ UNCHANGED <<replication, limiter, activation, args>>

NextNames ==
    \/ RemoteTracking
    \/ RemoteTrackingAgain
    \/ Scoped
    \/ OwnedOfScoped
    \/ AddNamespace
    \/ AddNamespaceAgain
    \/ StripNamespace
    \/ StripNamespaceRecursive

SpecNames == InitNames /\ [][NextNames]_vars

(***************************************************************************)
(* Socket activation (lnk-clib socket_activation/sd.rs): a process finds   *)
(* LISTEN_PID, LISTEN_FDS and LISTEN_FDNAMES in its environment, calls     *)
(* Systemd::from_env once and then activate(name).                         *)
(***************************************************************************)
\* process::id() and the pid of another process.
Pid == 7
ForeignPid == 8
\* SD_LISTEN_FDS_START
SD_LISTEN_FDS_START == 3
\* The most descriptors passed, and the longest LISTEN_FDNAMES.
MaxFds == 2
MaxChars == 3

Digits == <<"0", "1", "2", "3", "4", "5", "6", "7", "8", "9">>
DigitOf(c) == (CHOOSE i \in DOMAIN Digits : Digits[i] = c) - 1
IsDigit(c) == \E i \in DOMAIN Digits : Digits[i] = c

\* str::parse::<u32> of a short string: decimal digits, at least one.
RECURSIVE decimal(_)
decimal(str) ==
    IF str = <<>> THEN 0
    ELSE 10 * decimal(SubSeq(str, 1, Len(str) - 1)) + DigitOf(str[Len(str)])

parse_u32(str) ==
    IF str # <<>> /\ \A i \in DOMAIN str : IsDigit(str[i])
    THEN [ok |-> TRUE, val |-> decimal(str)]
    ELSE [ok |-> FALSE, val |-> 0]

\* str::split(':'): the fields between the colons; one empty field for
\* the empty string.
RECURSIVE split(_)
split(str) ==
    IF \A i \in DOMAIN str : str[i] # ":" THEN <<str>>
    ELSE LET i == CHOOSE k \in DOMAIN str :
                      str[k] = ":" /\ \A j \in 1..(k - 1) : str[j] # ":"
         IN  <<SubSeq(str, 1, i - 1)>> \o split(SubSeq(str, i + 1, Len(str)))

\* env::var(..).unwrap_or_default()
var_or_default(environ, v) == IF environ[v].set THEN environ[v].val ELSE <<>>

\* Guard::drop of listen_fds
guard_drop(environ) ==
    [environ EXCEPT !["LISTEN_PID"] = Unset, !["LISTEN_FDS"] = Unset]

\* The loop of listen_fds over SD_LISTEN_FDS_START..last: F_SETFD on each
\* descriptor, ended by the first that is not open.
RECURSIVE set_cloexec(_, _, _)
set_cloexec(p, fd, last) ==
    IF fd >= last THEN [err |-> "", cloexec |-> p.cloexec]
    ELSE IF fd \notin p.open THEN [err |-> "fcntl", cloexec |-> p.cloexec]
    ELSE set_cloexec([p EXCEPT !.cloexec = @ \cup {fd}], fd + 1, last)

\* listen_fds(): the error, the range start..last of descriptors and the
\* process it leaves (the guard has dropped).
listen_fds(p) ==
    LET left == [p EXCEPT !.environ = guard_drop(@)]
        none == [err |-> "", start |-> 0, last |-> 0, proc |-> left]
        pid  == parse_u32(p.environ["LISTEN_PID"].val)
        fds  == parse_u32(p.environ["LISTEN_FDS"].val)
    IN  IF ~p.environ["LISTEN_PID"].set THEN none
        ELSE IF ~pid.ok THEN [none EXCEPT !.err = "invalid LISTEN_PID"]
        ELSE IF pid.val # Pid THEN none
        ELSE IF ~p.environ["LISTEN_FDS"].set THEN none
        ELSE IF ~fds.ok THEN [none EXCEPT !.err = "invalid LISTEN_FDS"]
        ELSE LET last == SD_LISTEN_FDS_START + fds.val
                 set  == set_cloexec(p, SD_LISTEN_FDS_START, last)
             IN  [err |-> set.err,
                  start |-> IF set.err = "" THEN SD_LISTEN_FDS_START ELSE 0,
                  last |-> IF set.err = "" THEN last ELSE 0,
                  proc |-> [left EXCEPT !.cloexec = set.cloexec]]

\* The HashMap collected from the zipped (name, fd) pairs: of two pairs
\* with one name the later stays.
collect(fields, start) ==
    [f \in {fields[i] : i \in DOMAIN fields} |->
        start - 1 + CHOOSE i \in DOMAIN fields :
                        fields[i] = f /\ \A j \in DOMAIN fields : fields[j] = f => j <= i]

\* Systemd::from_env()
from_env(p) ==
    LET l      == listen_fds(p)
        fields == split(var_or_default(l.proc.environ, "LISTEN_FDNAMES"))
    IN  IF l.err # "" THEN [err |-> l.err, fds |-> EmptyMap, proc |-> l.proc]
        ELSE IF Len(fields) # l.last - l.start
        THEN [err |-> "LISTEN_FDNAMES and LISTEN_FDS do not match", fds |-> EmptyMap,
              proc |-> l.proc]
        ELSE [err |-> "", fds |-> collect(fields, l.start), proc |-> l.proc]

FdNames ==
    UNION {[1..k -> {"h", "a", ":"}] : k \in 0..MaxChars}

PidStrings == {<<>>, <<"x">>, <<"7">>, <<"0", "7">>, <<"8">>}
FdsStrings == {<<"x">>} \cup {<<Digits[k + 1]>> : k \in 0..MaxFds}

Inherited ==
    {[v \in EnvVars |-> e[v]] :
        e \in [LISTEN_PID : {Unset} \cup {Set(x) : x \in PidStrings},
               LISTEN_FDS : {Unset} \cup {Set(x) : x \in FdsStrings},
               LISTEN_FDNAMES : {Unset} \cup {Set(x) : x \in FdNames}]}

InitSd ==
    /\ mode = "activation"
    /\ \E e \in Inherited, k \in 0..MaxFds :
          proc = [inherited |-> e, environ |-> e,
                  open |-> {SD_LISTEN_FDS_START + i : i \in 0..(k - 1)},
                  cloexec |-> {}]
    /\ sd = NoSd
    /\ NoNames
    /\ NoCalls(Config_default)
    /\ remote_id = PeerA
    /\ refdb = InitStore(1, 0, 0)
    /\ trackings = {}
    /\ sigrefs = ComputeSigrefs(refdb, trackings)
    /\ odb = Closure(StoreOids(refdb))
    /\ before = <<refdb, trackings, sigrefs>>
    /\ debug_assertions = FALSE
    /\ updates = <<>>
    /\ tx = NoTx
    /\ pc = "start"
    /\ result = <<"", NoPeer>>
    /\ state = FetchStateDefault
    /\ anchor = 0
    /\ forfetch = ForFetch(LocalId, remote_id, {}, {})
    /\ skip = ""
    /\ signed_refs = NoCombined
    /\ success = NoSuccess
    /\ log = <<>>
    /\ streams = 0

\* Systemd::from_env()
FromEnv ==
    /\ mode = "activation" /\ ~sd.called
    /\ \E r \in {from_env(proc)} :
          /\ proc' = r.proc
          /\ sd' = [called |-> TRUE, err |-> r.err, fds |-> r.fds, activated |-> <<>>]
    /\ UNCHANGED <<replication, limiter, names>>

\* Systemd::activate(name) on the value from_env returned
Activate ==
    /\ sd.called /\ sd.err = ""
    /\ \E f \in {<<>>, <<"h">>, <<"a">>} :
          sd' = [sd EXCEPT
                   !.fds = [x \in DOMAIN sd.fds \ {f} |-> sd.fds[x]],
                   !.activated = <<f, IF f \in DOMAIN sd.fds THEN <<sd.fds[f]>> ELSE <<>> >>]
    /\ UNCHANGED <<replication, limiter, names, proc>>

NextSd ==
    \/ FromEnv
    \/ Activate

SpecSd == InitSd /\ [][NextSd]_vars

(***************************************************************************)
(* Fetch::wants_haves called as Network::run_fetch calls it (fetch.rs,     *)
(* io/net.rs): on the refs of an advertisement that ref_filter retains,    *)
(* for any combined signed refs and any local store.                       *)
(***************************************************************************)
\* The combined signed refs of the Fetch step: A's refs/heads/main signed
\* at the data commit `sa` (0: A has signed nothing), B's at `sb`, and the
\* tracked peers.
WantsCombined ==
    {[NoCombined EXCEPT
        !.refs = [p \in ({PeerA} \cap {x \in Peers : sa # 0})
                          \cup ({PeerB} \cap {x \in Peers : sb # 0}) |->
                     [at |-> SigBase + 1,
                      refs |-> (Main :> Offset(DataBase, IF p = PeerA THEN sa ELSE sb))]],
        !.remotes = rm] :
        sa \in 0..MaxOid, sb \in 0..1, rm \in {{}, {PeerB}, {PeerA, PeerB}}}

InitWants ==
    /\ mode = "wants_haves"
    /\ remote_id = PeerA
    /\ signed_refs \in WantsCombined
    /\ refdb \in {InitStore(1, k[1], k[2]) : k \in {<<0, 0>>, <<1, 1>>, <<1, 3>>}}
    /\ args \in {[adv |-> adv] : adv \in DataAdverts}
    /\ out = NoOut
    /\ NoActivation
    /\ NoCalls(Config_default)
    /\ trackings = {}
    /\ sigrefs = ComputeSigrefs(refdb, trackings)
    /\ odb = Oids
    /\ before = <<refdb, trackings, sigrefs>>
    /\ debug_assertions = FALSE
    /\ updates = <<>>
    /\ tx = NoTx
    /\ pc = "data"
    /\ result = <<"", NoPeer>>
    /\ state = FetchStateDefault
    /\ anchor = 0
    /\ forfetch = ForFetch(LocalId, remote_id, {}, {})
    /\ skip = ""
    /\ success = NoSuccess
    /\ log = <<>>
    /\ streams = 0

\* The refs of the advertisement that Negotiation::ref_filter retains.
Retained(neg, adv) == {ref_filter(neg, n, adv[n]) : n \in DOMAIN adv} \ {NoRef}

\* neg.wants_haves(&self.db, refs.filter_map(ref_filter)) of the Fetch neg
WantsHaves ==
    /\ mode = "wants_haves" /\ out = NoOut
    /\ \E neg \in {Fetch(LocalId, remote_id, signed_refs)} :
          out' = [op |-> "wants_haves",
                  vals |-> <<wants_haves(neg, refdb, Retained(neg, args.adv))>>]
    /\ UNCHANGED <<replication, limiter, activation, args>>

NextWants == WantsHaves

SpecWants == InitWants /\ [][NextWants]_vars

(***************************************************************************)
(* UpdateTips::prepare of ForClone called as eval::step calls it           *)
(* (peek/clone.rs, eval/step.rs): after pre_validate has passed and the    *)
(* tips of the retained rad/ refs are recorded in the FetchState.          *)
(***************************************************************************)
\* The refs a ForClone step from the peer `remote` retains of what ls-refs
\* can return and that pass its pre_validate.  The object database holds
\* their tips (run_fetch checked that) and whatever it held before.
CloneRefs(remote) ==
    {rs \in {Retained(ForClone(remote), adv) : adv \in PeekAdverts} :
        pre_validate(ForClone(remote), rs)}

InitPrepare ==
    /\ mode = "prepare"
    /\ remote_id \in {PeerA, PeerB}
    /\ args \in {[refs |-> rs] : rs \in CloneRefs(remote_id)}
    /\ state = record_tips(FetchStateDefault, SetToSeq(args.refs))
    /\ out = NoOut
    /\ NoActivation
    /\ NoCalls(Config_default)
    /\ refdb = EmptyMap
    /\ trackings = {}
    /\ sigrefs = ComputeSigrefs(refdb, trackings)
    /\ odb \in {Closure({r.tip : r \in args.refs}) \cup had : had \in {{}, {DataBase + 1}, DataOids}}
    /\ before = <<refdb, trackings, sigrefs>>
    /\ debug_assertions \in BOOLEAN
    /\ updates = <<>>
    /\ tx = NoTx
    /\ pc = "start"
    /\ result = <<"", NoPeer>>
    /\ anchor = 0
    /\ forfetch = ForFetch(LocalId, remote_id, {}, {})
    /\ skip = ""
    /\ signed_refs = NoCombined
    /\ success = NoSuccess
    /\ log = <<>>
    /\ streams = 0

\* UpdateTips::prepare(&step, state, cx, refs) of the ForClone step
ClonePrepare ==
    /\ mode = "prepare" /\ out = NoOut
    /\ out' = [op |-> "prepare",
               vals |-> <<prepare(ForClone(remote_id), state, odb, args.refs)>>]
    /\ UNCHANGED <<replication, limiter, activation, args>>

NextPrepare == ClonePrepare

SpecPrepare == InitPrepare /\ [][NextPrepare]_vars

(***************************************************************************)
(* The Shim over a FetchState and the persistent stores (state.rs): any    *)
(* sequence of writes through the Shim, of sigref tips recorded by a step, *)
(* and of reads through the Shim.                                          *)
(***************************************************************************)
\* The most writes, updates and tracking relationships together, made
\* through the Shim.
MaxWrites == 2

\* What the calls leave alone.
shimmed == <<mode, remote_id, pc, result, anchor, forfetch, skip, signed_refs, success,
             persistent, odb, log, streams, before, debug_assertions, updates, tx,
             limiter, activation>>

\* The updates written: of A's head, of A's rad/signed_refs, of the local
\* rad/id, and the symref refs/rad/ids/<urn>.
ShimWrites ==
    {Direct(TrackA, DataBase + t, "Allow") : t \in 1..2}
    \cup {Direct(remote_tracking(PeerA, RadSignedRefs), SigBase + 2, "Abort"),
          Direct(RadId, 2, "Abort"),
          SymbolicUpdate(RadIds(DelegateUrn), namespaced(DelegateUrn, RadId), 1, "Allow")}

\* The names read: those written, and B's head, which nothing has.
ShimNames == {u.name : u \in ShimWrites} \cup {TrackB}

\* The persistent stores: nothing is known of A, or A's signed refs and
\* head are at their first or second commit.  args is the history of the
\* updates and of the tracking relationships handed to the Shim.
InitShim ==
    /\ mode = "shim"
    /\ remote_id = PeerA
    /\ refdb \in {InitStore(1, k[1], k[2]) : k \in {<<0, 0>>, <<1, 1>>, <<2, 2>>}}
    /\ trackings = {}
    /\ sigrefs = ComputeSigrefs(refdb, trackings)
    /\ odb = Oids
    /\ before = <<refdb, trackings, sigrefs>>
    /\ state = FetchStateDefault
    /\ args = [ups |-> <<>>, rels |-> <<>>]
    /\ out = NoOut
    /\ debug_assertions = FALSE
    /\ updates = <<>>
    /\ tx = NoTx
    /\ NoCalls(Config_default)
    /\ NoActivation
    /\ pc = "rad"
    /\ result = <<"", NoPeer>>
    /\ anchor = 0
    /\ forfetch = ForFetch(LocalId, remote_id, {}, {})
    /\ skip = ""
    /\ signed_refs = NoCombined
    /\ success = NoSuccess
    /\ log = <<>>
    /\ streams = 0

\* Refdb::update of the Shim
ShimUpdate ==
    /\ mode = "shim"
    /\ \E n \in 1..(MaxWrites - Len(state.tips) - Len(state.trks)) :
       \E ups \in [1..n -> ShimWrites] :
          /\ state' = update_all(state, ups)
          /\ args' = [args EXCEPT !.ups = @ \o ups]
          /\ out' = [op |-> "update", vals |-> <<>>]
    /\ UNCHANGED shimmed

\* Tracking::track of the Shim
ShimTrack ==
    /\ mode = "shim"
    /\ Len(state.tips) + Len(state.trks) < MaxWrites
    /\ \E p \in {PeerA, PeerB} :
          /\ state' = track_all(state, <<Rel(p, "")>>)
          /\ args' = [args EXCEPT !.rels = @ \o <<Rel(p, "")>>]
          /\ out' = [op |-> "track", vals |-> <<>>]
    /\ UNCHANGED shimmed

\* FetchState::insert_sigref_tip, as a step calls it for a rad/signed_refs
\* it retained
InsertSigrefTip ==
    /\ mode = "shim"
    /\ \E p \in {PeerA, PeerB}, tip \in SigOids :
          /\ sigref_tip(state, p) # tip
          /\ state' = insert_sigref_tip(state, p, tip)
          /\ out' = [op |-> "insert_sigref_tip", vals |-> <<>>]
    /\ UNCHANGED <<shimmed, args>>

\* Refdb::refname_to_id of the Shim
ShimRefnameToId ==
    /\ mode = "shim"
    /\ \E n \in ShimNames :
          out' = [op |-> "refname_to_id",
                  vals |-> <<n, shim_refname_to_id(state, refdb, n)>>]
    /\ UNCHANGED <<shimmed, state, args>>

\* SignedRefs::load of the Shim
ShimLoad ==
    /\ mode = "shim"
    /\ \E of \in {PeerA, PeerB} :
          out' = [op |-> "load",
                  vals |-> <<of, shim_load(state, refdb, odb, of, Cutoff)>>]
    /\ UNCHANGED <<shimmed, state, args>>

NextShim ==
    \/ ShimUpdate
    \/ ShimTrack
    \/ InsertSigrefTip
    \/ ShimRefnameToId
    \/ ShimLoad

SpecShim == InitShim /\ [][NextShim]_vars

(***************************************************************************)
(* The peek steps of a run (eval/step.rs, lib.rs, eval/pull.rs): the       *)
(* ForClone step of a clone and the ForFetch step that follows it or       *)
(* starts a pull, on a remote that advertises any mix of the rad/ refs of  *)
(* A and of B.  The FetchState is kept as the step leaves it, also when    *)
(* the step returns an error; args is the step and what ls-refs returned,  *)
(* out the error and the SkippedFetch the step returned.                   *)
(***************************************************************************)
\* What ls-refs can return: the rad/ refs of A (identity `ia`, signed refs
\* `sa`, the delegation its identity names), and of the rad/ refs A has of
\* B either rad/id, rad/self and rad/signed_refs, or rad/ids/<urn>, or all
\* of them, or none.
StepAdverts ==
    {AdvOf({<<RadId, ia>>,
            <<RadSelf, IF ia # 0 THEN 1 ELSE NoOid>>,
            <<RadSignedRefs, Offset(SigBase, sa)>>,
            <<RadIds(DelegateUrn), IF DelegateUrns(ia) # {} THEN 1 ELSE NoOid>>,
            <<remote_tracking(PeerB, RadId), b[1]>>,
            <<remote_tracking(PeerB, RadSelf), b[1]>>,
            <<remote_tracking(PeerB, RadSignedRefs), Offset(SigBase, b[1])>>,
            <<remote_tracking(PeerB, RadIds(DelegateUrn)), b[2]>>}) :
        ia \in 0..2, sa \in 0..1, b \in {<<0, 0>>, <<1, 0>>, <<0, 1>>, <<1, 1>>}}

\* What the step actions leave alone.
stepping == <<mode, remote_id, result, forfetch, skip, signed_refs, success, persistent,
              before, debug_assertions, updates, tx, limiter, activation>>

\* A clone into a store without the URN, or a pull into a store that has
\* it; B is tracked or not.
InitSteps ==
    /\ mode = "steps"
    /\ remote_id = PeerA
    /\ \E sc \in {[a |-> 0, k |-> 0], [a |-> 0, k |-> 1], [a |-> 1, k |-> 0],
                  [a |-> 1, k |-> 1], [a |-> 2, k |-> 1]} :
          /\ refdb = InitStore(sc.a, sc.k, sc.k)
          /\ pc = IF sc.a = 0 THEN "start" ELSE "peek"
          /\ anchor = sc.a
    /\ trackings \in {{}, {Rel(PeerB, "")}}
    /\ sigrefs = ComputeSigrefs(refdb, trackings)
    /\ odb = Closure(StoreOids(refdb))
    /\ before = <<refdb, trackings, sigrefs>>
    /\ state = FetchStateDefault
    /\ args = [s |-> ForClone(remote_id), adv |-> EmptyMap]
    /\ out = NoOut
    /\ debug_assertions = FALSE
    /\ updates = <<>>
    /\ tx = NoTx
    /\ NoCalls(Config_default)
    /\ NoActivation
    /\ result = <<"", NoPeer>>
    /\ forfetch = ForFetch(LocalId, remote_id, {}, {})
    /\ skip = ""
    /\ signed_refs = NoCombined
    /\ success = NoSuccess
    /\ log = <<>>
    /\ streams = 0

\* eval::step(state, cx, s) on what the remote and the network do
StepTaken(s, env, next) ==
    \E r \in {step(state, refdb, odb, s, env.adv, env.net, env.missing)} :
        /\ Stepped(s.kind, r)
        /\ state' = r.st
        /\ args' = [s |-> s, adv |-> env.adv]
        /\ out' = [op |-> "step", vals |-> <<r.err, r.skip>>]
        /\ pc' = IF r.err = "" THEN next ELSE "done"

\* lib.rs clone: the ForClone step and the anchor
StepForClone ==
    /\ mode = "steps" /\ pc = "start"
    /\ \E env \in Environments(StepAdverts) : StepTaken(ForClone(remote_id), env, "peek")
    /\ anchor' = IF out'.vals[1] = ""
                 THEN verify(odb', id_tip(state', remote_id),
                             lookup_delegations(state', remote_id))
                 ELSE anchor
    /\ UNCHANGED stepping

\* eval::pull: the ForFetch step
StepForFetch ==
    /\ mode = "steps" /\ pc = "peek" /\ anchor # 0
    /\ \E env \in Environments(StepAdverts) :
          StepTaken(for_fetch(trackings, anchor, remote_id), env, "done")
    /\ UNCHANGED <<stepping, anchor>>

NextSteps ==
    \/ StepForClone
    \/ StepForFetch

SpecSteps == InitSteps /\ [][NextSteps]_vars

(***************************************************************************)
(* SignedRefs::update of the Context (librad git/replication/context.rs):  *)
(* refs::Refs::update retried by backoff::retry under an exponential       *)
(* backoff.  Time is counted in ticks of 50 ms.  args is the backoff and   *)
(* the attempts made, out what update returned.                            *)
(***************************************************************************)
\* initial_interval and current_interval: 100 ms
InitialInterval == 2
\* max_interval: 1 s
MaxInterval == 20
\* max_elapsed_time, after which no further retry is granted
MaxElapsed == 12

\* The interval the backoff hands out for the current interval `i`: i
\* randomized by the factor 0.5 either way.
RandomizedIntervals(i) == ((i + 1) \div 2)..((3 * i) \div 2)

\* The current interval after one more retry: multiplied by 1.5, at most
\* max_interval.
increment_current_interval(i) ==
    IF (3 * i) \div 2 > MaxInterval THEN MaxInterval ELSE (3 * i) \div 2

\* What refs::Refs::update can return: the manifest commit, written or
\* unchanged, a collision with a concurrent writer, or a store error.
RefsUpdateResults ==
    {[kind |-> k, at |-> at] : k \in {"Updated", "Unchanged"}, at \in SigOids}
    \cup {[kind |-> "ConcurrentlyModified", at |-> NoOid], [kind |-> "Err", at |-> NoOid]}

\* A retry loop that treats a store error like a collision.
op_retrying(r) ==
    IF r.kind \in {"Updated", "Unchanged"} THEN [kind |-> "Ok", val |-> r.at]
    ELSE IF r.kind = "ConcurrentlyModified"
    THEN [kind |-> "Transient", val |-> "Contended"]
    ELSE [kind |-> "Transient", val |-> "Refs"]

\* The closure handed to backoff::retry, applied to the result `r` of
\* refs::Refs::update
op(r) ==
    IF r.kind = "Err" THEN [kind |-> "Permanent", val |-> "Refs"]
    ELSE IF r.kind \in {"Updated", "Unchanged"} THEN [kind |-> "Ok", val |-> r.at]
    ELSE [kind |-> "Transient", val |-> "Contended"]

\* What the retry loop leaves alone.
backing_off == <<mode, remote_id, result, state, anchor, forfetch, skip, signed_refs,
                 success, persistent, odb, log, streams, before, debug_assertions,
                 updates, tx, limiter, activation>>

\* backoff::retry resets the backoff before the first attempt.
InitBackoff ==
    /\ mode = "update"
    /\ remote_id = PeerA
    /\ refdb \in {InitStore(1, k, k) : k \in 0..1}
    /\ trackings = {}
    /\ sigrefs = ComputeSigrefs(refdb, trackings)
    /\ odb = Oids
    /\ before = <<refdb, trackings, sigrefs>>
    /\ state = FetchStateDefault
    /\ args = [attempts |-> 0, interval |-> InitialInterval, elapsed |-> 0, last |-> ""]
    /\ out = NoOut
    /\ debug_assertions = FALSE
    /\ updates = <<>>
    /\ tx = NoTx
    /\ NoCalls(Config_default)
    /\ NoActivation
    /\ pc = "attempt"
    /\ result = <<"", NoPeer>>
    /\ anchor = 0
    /\ forfetch = ForFetch(LocalId, remote_id, {}, {})
    /\ skip = ""
    /\ signed_refs = NoCombined
    /\ success = NoSuccess
    /\ log = <<>>
    /\ streams = 0

\* One call of the closure, which takes `d` ticks, and what retry does
\* with its result: return it, or ask the backoff for the next interval,
\* which is refused once max_elapsed_time has passed.
Attempt ==
    /\ mode = "update" /\ pc = "attempt"
    /\ \E r \in RefsUpdateResults, d \in 0..1 :
       \E o \in {op(r)} :
          /\ args' = [args EXCEPT !.attempts = @ + 1, !.elapsed = @ + d, !.last = r.kind]
          /\ IF o.kind = "Ok"
             THEN /\ out' = [op |-> "update", vals |-> <<"", o.val>>]
                  /\ pc' = "done"
             ELSE IF o.kind = "Permanent" \/ args'.elapsed > MaxElapsed
             THEN /\ out' = [op |-> "update", vals |-> <<o.val, NoOid>>]
                  /\ pc' = "done"
             ELSE /\ out' = out
                  /\ pc' = "sleep"
    /\ UNCHANGED backing_off

\* thread::sleep for the interval the backoff handed out
Sleep ==
    /\ mode = "update" /\ pc = "sleep"
    /\ \E w \in RandomizedIntervals(args.interval) :
          args' = [args EXCEPT !.elapsed = @ + w,
                               !.interval = increment_current_interval(@)]
    /\ pc' = "attempt"
    /\ UNCHANGED <<backing_off, out>>

NextBackoff ==
    \/ Attempt
    \/ Sleep

SpecBackoff == InitBackoff /\ [][NextBackoff]_vars

\* backoff::retry runs on the calling thread, which nothing suspends:
\* the closure returns and the sleep ends.
SpecBackoffFair == SpecBackoff /\ WF_vars(NextBackoff)

(***************************************************************************)
(* Properties of the evaluator.                                            *)
(***************************************************************************)
Logged(x) == \E i \in DOMAIN log : log[i] = x
Count(x) == Cardinality({i \in DOMAIN log : log[i] = x})
First(x) == CHOOSE i \in DOMAIN log : log[i] = x /\ \A j \in 1..(i - 1) : log[j] # x

\* The step `name` was run and reported the skip `status`.
SkippedWith(name, status) ==
    \E i \in DOMAIN log :
        log[i] = name /\ i + 3 \in DOMAIN log /\ log[i + 3] = status

\* The errors of the transaction of Refdb::update
TxErrors == {"Find", "NonFF", "TypeChange", "TargetSymbolic", "Prepare"}

\* C1: as long as post-validation has not completed, the persistent
\* reference store, the tracking store and the local signed-refs manifest
\* are exactly as they were before the run; so a run that ends before it
\* (layout, verification, network or sigrefs error, cancellation, panic)
\* has written to none of them.
C1_NoWriteBeforeValidation == ~Logged("validate") => persistent = before

\* A run that had queued ref updates and trackings ended before
\* post-validation.
C1_Witness ==
    /\ pc = "done" /\ ~Logged("validate") /\ Logged("Fetch")
    /\ state.tips # <<>> /\ state.trks # <<>>
    /\ result[1] # "Success"

\* C2: a run whose final Refdb::update failed with a transaction error has
\* persisted nothing: refs, trackings and signed-refs manifest are as
\* before the run.
C2_TxErrorPersistsNothing ==
    (pc = "done" /\ Logged("update") /\ result[1] \in TxErrors) => persistent = before

\* C3: Refdb::update is invoked at most once; when it is invoked, the
\* ForFetch and the data step, validate() and every Tracking::track of the
\* drain precede it; SignedRefs::update is invoked only directly after an
\* update that reported no error; a run that returns Success after the
\* data step has invoked it exactly once; a run that returned early or
\* failed before the commit has invoked it zero times.
C3_UpdateExactlyOnce ==
    /\ Count("update") <= 1
    /\ Logged("update") =>
         /\ Logged("ForFetch") /\ Logged("Fetch") /\ Logged("validate")
         /\ \A i \in DOMAIN log :
                log[i] \in {"ForClone", "ForFetch", "Fetch", "reload", "ls-refs", "fetch",
                            "add_pack", "validate", "track"}
                => i < First("update")
    /\ Logged("signed_refs") =>
         /\ First("signed_refs") > 1
         /\ log[First("signed_refs") - 1] = "update"
    /\ (pc = "signed_refs" \/ (pc = "done" /\ result[1] = "Success" /\ Logged("Fetch")))
         => Count("update") = 1
    /\ (pc = "done" /\ result[1] = "Success" /\ ~Logged("Fetch")) => Count("update") = 0
    /\ (pc = "done" /\ result[1] \notin {"Success", "Contended", "Refs"} \cup TxErrors)
         => Count("update") = 0

\* A run got past the data step, drained a tracking and committed.
C3_Witness ==
    /\ pc = "done" /\ result[1] = "Success"
    /\ Logged("track") /\ Count("update") = 1 /\ Logged("signed_refs")
    /\ refdb # before[1]

\* C4: a pull or clone whose remote_id is the local peer id ends with the
\* error "cannot replicate from self", and runs no negotiation step, opens
\* no stream and changes no state: FetchState, anchor, object database and
\* the persistent stores are as at the start.
C4_NoReplicationFromSelf ==
    remote_id = LocalId =>
        /\ pc \in {"start", "done"}
        /\ pc = "done" => result = <<"cannot replicate from self", NoPeer>>
        /\ log = <<>> /\ streams = 0
        /\ state = FetchStateDefault /\ anchor = 0
        /\ persistent = before
        /\ odb = Closure(StoreOids(before[1]))

\* A clone from the local peer itself has ended.
C4_Witness == mode = "clone" /\ remote_id = LocalId /\ pc = "done"

\* C5: a pull on a store without a local rad/id ends with the
\* missing-anchor error before any negotiation step is run; a clone runs
\* without a local rad/id, and the anchor it hands to the evaluator is the
\* identity verified at the rad/id tip the ForClone step recorded for the
\* remote.
C5_Anchor ==
    /\ (mode = "pull" /\ remote_id # LocalId /\ Namespaced(RadId) \notin DOMAIN before[1]) =>
         /\ pc \in {"start", "done"}
         /\ pc = "done" => result = <<"pull: missing rad/id", NoPeer>>
         /\ log = <<>> /\ streams = 0
    /\ (mode = "clone" /\ pc = "peek") =>
         /\ log[1] = "ForClone"
         /\ id_tip(state, remote_id) # NoOid
         /\ anchor # 0
         /\ anchor = verify(odb, id_tip(state, remote_id),
                            lookup_delegations(state, remote_id))

\* A clone into a store without rad/id has its anchor from the ForClone step.
C5_Witness ==
    /\ mode = "clone" /\ pc = "peek"
    /\ Namespaced(RadId) \notin DOMAIN refdb
    /\ anchor # 0

\* C6: when the ForFetch step is skipped with NoMatchingRefs, the run has
\* ended with Success, with empty applied, requires_confirmation = FALSE
\* and no validation warnings; the data step was not run and refs,
\* trackings and signed-refs manifest are as before the run.
C6_NoMatchingRefsEndsRun ==
    SkippedWith("ForFetch", "NoMatchingRefs") =>
        /\ pc = "done"
        /\ result = <<"Success", NoPeer>>
        /\ success = [applied |-> NoApplied, requires_confirmation |-> FALSE,
                      validation |-> {}]
        /\ log[Len(log)] = "NoMatchingRefs"
        /\ ~Logged("Fetch") /\ ~Logged("validate") /\ ~Logged("update")
        /\ persistent = before

\* A pull whose ForFetch step found no matching refs.
C6_Witness == mode = "pull" /\ SkippedWith("ForFetch", "NoMatchingRefs") /\ pc = "done"

\* C7: a clone whose ForClone step is skipped (NoMatchingRefs or
\* WantNothing) and that has ended, has ended with an empty Success and
\* has written nothing.
C7_CloneSkipEmptySuccess ==
    (/\ mode = "clone" /\ pc = "done"
     /\ \/ SkippedWith("ForClone", "NoMatchingRefs")
        \/ SkippedWith("ForClone", "WantNothing"))
    => /\ result = <<"Success", NoPeer>>
       /\ success.applied = NoApplied
       /\ persistent = before

WantedOf(s, adv) ==
    wants_haves(s, refdb, {ref_filter(s, n, adv[n]) : n \in DOMAIN adv} \ {NoRef}).wanted

\* run_fetch of step `s` fails with NotFoundInPack whenever it has
\* ingested a pack and a wanted tip is not in the object database.
NotFoundIsFatal(s, adverts) ==
    \A env \in Environments(adverts) :
    \A f \in {run_fetch(s, refdb, odb, env.adv, env.net, env.missing)} :
            (/\ f.log # <<>> /\ f.log[Len(f.log)] = "add_pack"
             /\ \E r \in WantedOf(s, env.adv) : r.tip \notin f.odb)
            => f.status = "NotFoundInPack"

\* C9: whenever run_fetch has ingested a pack and the tip of some wanted
\* ref is not in the object database, it ends with the "not found in
\* pack" error; a run that got this error has ended right after the pack
\* was ingested, with refs, trackings and signed-refs manifest as before.
C9_NotFoundInPack ==
    /\ (pc = "start" /\ mode = "clone" /\ remote_id # LocalId)
         => NotFoundIsFatal(ForClone(remote_id), PeekAdverts)
    /\ pc = "peek"
         => NotFoundIsFatal(for_fetch(trackings, anchor, remote_id), PeekAdverts)
    /\ pc = "data"
         => NotFoundIsFatal(Fetch(LocalId, remote_id, signed_refs), DataAdverts)
    /\ result[1] = "NotFoundInPack" =>
         /\ pc = "done"
         /\ log[Len(log)] = "add_pack"
         /\ persistent = before

\* The data step ended with the error: the pack lacked a wanted tip.
C9_Witness ==
    /\ result[1] = "NotFoundInPack" /\ Logged("Fetch")
    /\ state.tips # <<>>

\* What SignedRefs::load can answer for a peer
LoadResults == {SigrefsNone, SigrefsErr} \cup {Sigrefs(PeerA, SigBase + 1, Cutoff)}

\* The first peer of `must`, in iteration order, whose load does not
\* answer with signed refs (NoPeer if there is none).
FirstNotLoaded(ld, must) ==
    LET bad == SelectSeq(SortedSeq(must), LAMBDA p : ld[p].err \/ ~ld[p].found)
    IN  IF bad = <<>> THEN NoPeer ELSE bad[1]

\* C10: for all answers of SignedRefs::load, if the first peer of `must`
\* that has no loadable signed refs has none at all, combined is the
\* error NotFound of that peer, whatever the `may` peers yield; if every
\* `must` peer has signed refs and no load fails, combined succeeds with
\* the refs of the `must` peers and of those `may` peers that have signed
\* refs, the others being skipped; a run that ended with NotFound has its
\* persistent stores as before the run.
C10_CombinedNotFound ==
    /\ pc = "combined" =>
         \A ld \in [Peers -> LoadResults] :
         \A must \in {forfetch.delegates}, may \in {forfetch.tracked} :
         \A c \in {combined(ld, must, may)}, m \in {FirstNotLoaded(ld, must)} :
                /\ (m # NoPeer /\ ~ld[m].err) => (c.err = "NotFound" /\ c.peer = m)
                /\ (m = NoPeer /\ \A p \in may : ~ld[p].err) =>
                      /\ c.err = ""
                      /\ DOMAIN c.refs = must \cup {p \in may : ld[p].found}
    /\ result[1] = "NotFound" =>
         /\ pc = "done" /\ result[2] \in forfetch.delegates
         /\ ~Logged("validate")
         /\ persistent = before

\* A pull ended with NotFound of a delegate whose signed refs the local
\* store does not have.
C10_Witness ==
    /\ mode = "pull" /\ pc = "done"
    /\ result[1] = "NotFound" /\ result[2] \in forfetch.delegates
    /\ Cardinality(forfetch.delegates) > 1

(***************************************************************************)
(* Properties of the rad/ setup and of Identities::newer.                  *)
(***************************************************************************)
\* Two identities have diverged: neither is in the history of the other.
Diverged(a, b) ==
    /\ a # 0 /\ b # 0
    /\ ~is_in_ancestry_path(odb, a, b)
    /\ ~is_in_ancestry_path(odb, b, a)

\* The updates rad::setup queues are those of the local refs/rad/id and
\* refs/rad/ids/<urn>.
SetupNames == {RadId, RadIds(DelegateUrn)}
SetupStored == {Namespaced(RadId), Namespaced(RadIds(DelegateUrn))}

\* C11: when the rad/ setup finds that the newest delegate identity and
\* the anchor have diverged, the run goes on with requires_confirmation =
\* TRUE and an unchanged FetchState; whenever the setup finds no
\* divergence, and in every run in which it is skipped,
\* requires_confirmation is FALSE; the flag set by the setup is the one
\* Success returns; and while it is TRUE no tracking is queued or
\* persisted and no update of the local rad/ hierarchy is queued or listed
\* in applied.updated.
C11_ForkRequiresConfirmation ==
    [][/\ (pc = "rad" /\ skip = "") =>
            \A n \in {newest(state, refdb, odb, forfetch.delegates)} :
                (n.err = "" /\ n.id # 0) =>
                    /\ pc' = "combined"
                    /\ success'.requires_confirmation = Diverged(anchor, n.id)
                    /\ Diverged(anchor, n.id) => state' = state
       /\ (pc # "rad" \/ skip # "") =>
            /\ success'.requires_confirmation => success.requires_confirmation
            /\ (pc = "signed_refs" /\ result'[1] = "Success") =>
                 success'.requires_confirmation = success.requires_confirmation
       /\ success'.requires_confirmation =>
            /\ state'.trks = <<>> /\ trackings' = before[2]
            /\ \A i \in DOMAIN state'.tips : state'.tips[i].name \notin SetupNames
            /\ \A u \in success'.applied.updated : u.name \notin SetupStored
      ]_vars

\* C12: for any two verified identities in the object database,
\* Identities::newer returns one of the two when one is in the history of
\* the other, and the Fork error when their histories have diverged,
\* whether or not the two are of the same kind.
C12_NewerOrFork ==
    \A a, b \in IdOids \cap odb :
        IF Diverged(a, b)
        THEN newer(odb, a, b).err = "Fork"
        ELSE newer(odb, a, b).err = "" /\ newer(odb, a, b).id \in {a, b}

(***************************************************************************)
(* Properties of the data step and of the final commit.                    *)
(***************************************************************************)
\* The signed (peer, refname) of the combined signed refs `comb` whose
\* remote-tracking ref in `store` is not at the signed tip.
Mismatches(store, comb) ==
    UNION {{[peer |-> p, name |-> n] :
               n \in {m \in DOMAIN comb.refs[p].refs :
                         refname_to_id(store, remote_tracking(p, m))
                             # comb.refs[p].refs[m]}} :
           p \in DOMAIN comb.refs}

\* C13 as stated: a run that returned Success with a non-empty
\* applied.updated has no validation warning, every signed (peer, refname)
\* having its local remote-tracking ref at the signed tip.
C13_SuccessWithoutMismatch ==
    (pc = "done" /\ result[1] = "Success" /\ success.applied.updated # {}) =>
        /\ success.validation = {}
        /\ Mismatches(refdb, signed_refs) = {}

\* C13, amended: a run that returned Success after post-validation
\* returns in validation exactly the signed (peer, refname) of the
\* reloaded combined signed refs whose remote-tracking ref, in the
\* persistent store as the run has left it, is not at the signed tip;
\* every other signed (peer, refname) has its remote-tracking ref at the
\* signed tip.
C13_ValidationListsMismatches ==
    (pc = "done" /\ result[1] = "Success" /\ Logged("validate")) =>
        /\ success.validation = Mismatches(refdb, signed_refs)
        /\ \A p \in DOMAIN signed_refs.refs :
           \A n \in DOMAIN signed_refs.refs[p].refs :
               [peer |-> p, name |-> n] \notin success.validation
                   => refname_to_id(refdb, remote_tracking(p, n))
                          = signed_refs.refs[p].refs[n]

\* A run returned Success with updates applied and with a warning for a
\* signed ref that is not at its signed tip.
C13_Witness ==
    /\ pc = "done" /\ result[1] = "Success"
    /\ success.applied.updated # {}
    /\ success.validation # {}
    /\ \E u \in success.applied.updated :
           u.name = Namespaced(remote_tracking(PeerA, Main))

\* The update names a remote-tracking ref of the local peer.
NamesLocalRemote(n) == Len(n) >= 3 /\ n[2] = "remotes" /\ n[3] = LocalId

\* C14: every update the final commit is called with has a well-formed
\* (qualified) name that is not a remote-tracking ref of the local peer,
\* and no ref refs/remotes/<local>/... is listed in applied.updated or
\* comes into the persistent store.
C14_NeverTouchOurOwn ==
    /\ pc = "tips" =>
         \A i \in DOMAIN state.tips :
             /\ Qualified(state.tips[i].name)
             /\ ~NamesLocalRemote(state.tips[i].name)
    /\ \A u \in success.applied.updated : ~NamesLocalRemote(strip_namespace(u.name))
    /\ \A n \in DOMAIN refdb \ DOMAIN before[1] : ~NamesLocalRemote(strip_namespace(n))

(***************************************************************************)
(* Properties of Refdb::update.                                            *)
(***************************************************************************)
\* The Updated::Direct the call lists for a committed direct ref.
UpdatedDirect(name, target) ==
    [kind |-> "Direct", name |-> name, target |-> target, to |-> NoName]

\* A later update of the batch names the same ref as the i-th.
Superseded(i) ==
    \E j \in (i + 1)..Len(updates) : updates[j].name = updates[i].name

\* The update is a direct one of a name the store does not have.
CreatesRef(store, u) == u.kind = "Direct" /\ Namespaced(u.name) \notin DOMAIN store

\* The update is a direct one of a direct ref the store has, at `tip`.
DirectOnTip(store, u, tip) ==
    /\ u.kind = "Direct"
    /\ Namespaced(u.name) \in DOMAIN store
    /\ store[Namespaced(u.name)] = Peeled(tip)

\* The commit `old` is `new` or is reached walking the parents from `new`.
Reaches(new, old) == {new, old} \subseteq odb /\ old \in Ancestors(new)

\* C15: Refdb::update of a batch holding a direct update that is a pure
\* fast-forward of an existing direct ref, or that names a ref the store
\* does not have: whatever its policy, when the call returns without an
\* error the ref is at the target, the update is listed in
\* Applied.updated and is not in Applied.rejected (unless a later update
\* of the batch names the same ref); a call with this update alone, whose
\* transaction can take its locks, returns without an error.
C15_FastForwardAnyPolicy ==
    tx.called =>
        \A i \in DOMAIN updates :
        \A u \in {updates[i]} :
            (/\ ~Superseded(i)
             /\ \/ CreatesRef(before[1], u)
                \/ \E tip \in DataOids :
                       DirectOnTip(before[1], u, tip) /\ Reaches(u.target, tip))
            => /\ tx.err = "" =>
                    /\ Namespaced(u.name) \in DOMAIN refdb
                    /\ refdb[Namespaced(u.name)] = Peeled(u.target)
                    /\ UpdatedDirect(Namespaced(u.name), u.target) \in tx.applied.updated
                    /\ \A r \in DOMAIN tx.applied.rejected : tx.applied.rejected[r] # u
               /\ (Len(updates) = 1 /\ tx.lock_ok) => tx.err = ""

\* A batch with a fast-forward under policy Reject and the creation of a
\* ref under policy Abort was committed.
C15_Witness ==
    /\ tx.called /\ tx.err = ""
    /\ updates = <<Direct(TrackA, DataBase + 2, "Reject"),
                   Direct(TrackB, DataBase + 1, "Abort")>>
    /\ DirectOnTip(before[1], updates[1], DataBase + 1)
    /\ refdb[Namespaced(TrackA)] = Peeled(DataBase + 2)
    /\ refdb[Namespaced(TrackB)] = Peeled(DataBase + 1)

\* The batch without its i-th update.
Without(ups, i) == SubSeq(ups, 1, i - 1) \o SubSeq(ups, i + 1, Len(ups))

\* Another update of the batch names the same ref as the i-th.
NamedTwice(i) ==
    \E j \in DOMAIN updates : j # i /\ updates[j].name = updates[i].name

\* C16: Refdb::update of a batch holding a direct update with policy
\* Reject of an existing direct ref whose target is not a fast-forward of
\* the ref's tip: the call returns what it returns for the batch without
\* that update (the same error or none, the same store, the same
\* Applied.updated), and when it returns without an error the update is in
\* Applied.rejected, which is one longer than for the batch without it;
\* unless another update of the batch names the same ref, the ref is
\* still at its old tip and no update of it is in Applied.updated.
C16_RejectedNonFF ==
    tx.called =>
        \A i \in DOMAIN updates :
        \A u \in {updates[i]} :
        \A tip \in DataOids :
            (/\ DirectOnTip(before[1], u, tip)
             /\ u.policy = "Reject"
             /\ ~Reaches(u.target, tip))
            => \A rest \in {update(before[1], odb, Without(updates, i), tx.lock_ok)} :
                 /\ tx.err = rest.err
                 /\ refdb = rest.store
                 /\ tx.applied.updated = rest.applied.updated
                 /\ tx.err = "" =>
                      /\ \E r \in DOMAIN tx.applied.rejected : tx.applied.rejected[r] = u
                      /\ Len(tx.applied.rejected) = Len(rest.applied.rejected) + 1
                 /\ ~NamedTwice(i) =>
                      /\ refdb[Namespaced(u.name)] = Peeled(tip)
                      /\ \A x \in tx.applied.updated : x.name # Namespaced(u.name)

\* A batch with a rejected rewind of A's head and the creation of B's head
\* was committed: the first is in rejected, the second is applied.
C16_Witness ==
    /\ tx.called /\ tx.err = ""
    /\ updates = <<Direct(TrackA, DataBase + 1, "Reject"),
                   Direct(TrackB, DataBase + 1, "Abort")>>
    /\ DirectOnTip(before[1], updates[1], DataBase + 2)
    /\ tx.applied.rejected = <<updates[1]>>
    /\ DirectOnTip(refdb, updates[1], DataBase + 2)
    /\ UpdatedDirect(Namespaced(TrackB), DataBase + 1) \in tx.applied.updated

\* The error that fails the whole transaction on update u against the
\* store, "" when there is none: a non-fast-forward under Abort, a change
\* of a direct ref into a symref under Abort, or a symref whose target is
\* itself symbolic.
FailsWith(store, u) ==
    IF u.kind = "Direct"
    THEN IF /\ u.policy = "Abort"
            /\ \E tip \in DataOids :
                  DirectOnTip(store, u, tip) /\ ~Reaches(u.target, tip)
         THEN "NonFF" ELSE ""
    ELSE IF Namespaced(u.name) \in DOMAIN store
            /\ store[Namespaced(u.name)].kind = "peeled"
            /\ u.policy # "Allow"
         THEN IF u.policy = "Abort" THEN "TypeChange" ELSE ""
         ELSE IF u.symname \in DOMAIN store /\ store[u.symname].kind = "symbolic"
         THEN "TargetSymbolic" ELSE ""

\* C17: when an update of the batch handed to Refdb::update is a
\* non-fast-forward under Abort, a type change under Abort or a symref to
\* a symbolic target, the call returns the error of the first such update,
\* the store is what it was before the call and nothing is reported as
\* applied, whatever the updates earlier in the batch are.
C17_AllOrNothing ==
    tx.called =>
        \A i \in DOMAIN updates :
            (/\ FailsWith(before[1], updates[i]) # ""
             /\ \A j \in 1..(i - 1) : FailsWith(before[1], updates[j]) = "")
            => /\ tx.err = FailsWith(before[1], updates[i])
               /\ refdb = before[1]
               /\ tx.applied = NoApplied

\* The creation of B's head followed by a rewind of A's head under Abort:
\* the call failed with NonFF and B's head was not created.
C17_Witness ==
    /\ tx.called /\ tx.lock_ok
    /\ updates = <<Direct(TrackB, DataBase + 1, "Allow"),
                   Direct(TrackA, DataBase + 1, "Abort")>>
    /\ DirectOnTip(before[1], updates[2], DataBase + 2)
    /\ tx.err = "NonFF"
    /\ Namespaced(TrackB) \notin DOMAIN refdb
    /\ refdb = before[1]

(***************************************************************************)
(* Properties of the slots of Replication::replicate.                      *)
(***************************************************************************)
\* The calls that hold a slot, and the calls whose evaluator is executing.
Holding == {c \in Callers : call[c] = "blocking"}
Executing == {c \in Callers : task[c] = "running"}

\* C18: the default number of slots is 4; at any time at most
\* config.slots evaluators are executing, and a call whose evaluator is
\* executing holds a slot.
C18_AtMostSlotsExecuting ==
    /\ Config_default.slots = 4
    /\ Cardinality(Executing) <= config.slots
    /\ Executing \subseteq Holding

\* C19: a call that waits for a slot or holds one has eventually
\* returned, panicked or been cancelled (so a waiting call that is not
\* cancelled gets a slot, and a slot that is held is given up); in the
\* step in which a call stops holding its slot the slot goes back to the
\* semaphore; whenever no call holds a slot all config.slots permits are
\* free.
C19_SlotReleased ==
    /\ \A c \in Callers :
          (call[c] \in {"acquire", "blocking"})
          ~> (call[c] \in {"returned", "panicked", "cancelled"})
    /\ [][\A c \in Callers :
             (call[c] = "blocking" /\ call'[c] # "blocking")
             => permits' = permits + 1]_vars
    /\ [](Holding = {} => permits = config.slots)

\* With one slot, the second call was cancelled while its evaluator ran
\* and the first, which then got the slot, was unwound by a panic of its
\* evaluator: the slot is free again.
C19_Witness ==
    /\ config.slots = 1
    /\ call[1] = "panicked" /\ task[1] = "Panic"
    /\ call[2] = "cancelled" /\ task[2] = "running"
    /\ permits = 1

\* C20: the default wait_slot is 5 (seconds), and no call has waited for a
\* slot longer than config.wait_slot: by then it has given up.
C20_WaitSlotTimeout ==
    /\ Config_default.wait_slot = 5
    /\ \A c \in Callers : call[c] = "acquire" => waited[c] <= config.wait_slot

(***************************************************************************)
(* Properties of the ref name functions.                                   *)
(***************************************************************************)
\* The name is refs/remotes/<peer> with fewer than two components after
\* the peer (no category, or a category and no name), once its namespaces
\* are taken off; or it has no category at all under its namespaces.
RECURSIVE Bare(_)
Bare(n) ==
    IF Len(n) >= 4 /\ n[2] = "namespaces" /\ n[4] = "refs" THEN Bare(Skip(n, 3))
    ELSE \/ Len(n) < 3
         \/ n[2] = "remotes" /\ Len(n) < 5

IsOwned(n) == Len(n) >= 3 /\ n[1] = "refs" /\ n[2] \notin {"remotes", "namespaces"}

\* C22: for an owned name n, scoped(p, q, n) is n when p = q and
\* refs/remotes/p/ followed by n without its "refs" (which is
\* remote_tracking(p, n)) when p # q; owned of either is n, which is
\* owned(n).  A name owned has no result for makes scoped panic.
C22_ScopedOwned ==
    out.op = "scoped" =>
        /\ IsOwned(args.n) =>
              /\ args.p = args.q => out.vals[1] = args.n
              /\ args.p # args.q =>
                    /\ out.vals[1] = <<"refs", "remotes", args.p>> \o Skip(args.n, 1)
                    /\ out.vals[1] = remote_tracking(args.p, args.n)
              /\ Len(out.vals) = 2 =>
                    out.vals[2] = owned(args.n) /\ out.vals[2] = args.n
        /\ owned(args.n) = NoName => out.vals[1] = Panicked

\* scoped(B, A, refs/heads/heads) returned refs/remotes/B/heads/heads, and
\* owned of that is refs/heads/heads again.
C22_Witness ==
    /\ out.op = "scoped" /\ Len(out.vals) = 2
    /\ args.p = PeerB /\ args.q = PeerA
    /\ args.n = <<"refs", "heads", "heads">>
    /\ out.vals = << <<"refs", "remotes", PeerB, "heads", "heads">>,
                     <<"refs", "heads", "heads">> >>

\* The name starts with refs/namespaces/<ns>/refs.
UnderNamespace(n) ==
    Len(n) >= 4 /\ SubSeq(n, 1, 2) = <<"refs", "namespaces">> /\ n[4] = "refs"

\* The name with all the namespaces it starts with taken off.
RECURSIVE Innermost(_)
Innermost(n) == IF UnderNamespace(n) THEN Innermost(SubSeq(n, 4, Len(n))) ELSE n

\* C23 as stated: strip_namespace_recursive of
\* namespaced(u1, namespaced(u2, q)) is q, for every qualified q.
C23_StripRecursiveIsInverse ==
    out.op = "strip_namespace_recursive" => out.vals[3] = args.n

\* C23: strip_namespace_recursive of namespaced(u1, namespaced(u2, q)) is q
\* with the namespaces q itself starts with taken off, so it is q exactly
\* when q is not namespaced; strip_namespace of it is namespaced(u2, q),
\* one namespace shorter.
C23_StripRecursiveInnermost ==
    /\ out.op = "strip_namespace_recursive" =>
          /\ out.vals[3] = Innermost(args.n)
          /\ ~UnderNamespace(out.vals[3])
          /\ out.vals[3] = args.n <=> ~UnderNamespace(args.n)
    /\ out.op = "strip_namespace" =>
          /\ out.vals[3] = <<"refs", "namespaces", args.u2>> \o args.n
          /\ out.vals[3] = out.vals[1]
          /\ out.vals[2] = <<"refs", "namespaces", args.u1>> \o out.vals[3]

\* strip_namespace_recursive was applied to refs/heads/heads under the
\* namespaces d and u and returned it; q was not namespaced.
C23_Witness ==
    /\ out.op = "strip_namespace_recursive"
    /\ args.n = <<"refs", "heads", "heads">>
    /\ args.u1 = DelegateUrn /\ args.u2 = Urn
    /\ out.vals[2] = <<"refs", "namespaces", DelegateUrn, "refs", "namespaces", Urn,
                       "refs", "heads", "heads">>
    /\ out.vals[3] = args.n

(***************************************************************************)
(* Properties of socket activation.                                        *)
(***************************************************************************)
\* LISTEN_PID was set to the decimal pid of another process.
ForeignListenPid ==
    /\ proc.inherited["LISTEN_PID"].set
    /\ parse_u32(proc.inherited["LISTEN_PID"].val).ok
    /\ parse_u32(proc.inherited["LISTEN_PID"].val).val # Pid

\* C24: when LISTEN_PID names another process, Systemd::from_env returns
\* Ok holding no sockets, and every activate(name) returns an empty vector.
C24_ForeignPidDisables ==
    (sd.called /\ ForeignListenPid) =>
        /\ sd.err = ""
        /\ DOMAIN sd.fds = {}
        /\ sd.activated # <<>> => sd.activated[2] = <<>>

\* C25: after Systemd::from_env has returned, with sockets, with none or
\* with an error, LISTEN_PID, LISTEN_FDS and LISTEN_FDNAMES are unset.
C25_EnvironmentUnset ==
    sd.called => \A v \in EnvVars : ~proc.environ[v].set

(***************************************************************************)
(* Properties of replicate and clone.                                      *)
(***************************************************************************)
\* The task of replicate goes on to pull if the store has the URN and to
\* clone if it has not.
Dispatched ==
    [][(pc = "replicate" /\ pc' = "start") =>
           mode' = IF has_urn(refdb, Urn) THEN "pull" ELSE "clone"]_vars

\* A clone from a delegate of the URN into a store without the URN has
\* returned Success.
CloneFromDelegate ==
    /\ mode = "clone" /\ pc = "done" /\ result[1] = "Success"
    /\ remote_id \in Delegates(anchor)
    /\ ~has_urn(before[1], Urn)

\* The peek step of the evaluator (ForFetch) ran and was not skipped.
PeekFetched == Logged("Fetch") /\ skip = ""

\* C26 as stated: replicate runs clone when the store does not have the URN
\* and pull when it has, and after every successful clone from a delegate
\* into a store without the URN the store has the URN and
\* requires_confirmation is false.
C26_CloneHasUrn ==
    /\ Dispatched
    /\ [](CloneFromDelegate =>
            has_urn(refdb, Urn) /\ ~success.requires_confirmation)

\* C26: replicate runs clone when the store does not have the URN and pull
\* when it has.  After a successful clone from a delegate into a store
\* without the URN, the store has the URN exactly if the ForFetch peek step
\* was not skipped and requires_confirmation is false, and its rad/id is
\* then a direct ref that applied.updated names; requires_confirmation is
\* true only if the peek step recorded for the remote a rad/id other than
\* the one the clone was anchored at.
C26_CloneStoresUrn ==
    /\ Dispatched
    /\ [](CloneFromDelegate =>
            /\ has_urn(refdb, Urn) <=>
                   (PeekFetched /\ ~success.requires_confirmation)
            /\ has_urn(refdb, Urn) =>
                   /\ refdb[namespaced(Urn, RadId)].kind = "peeled"
                   /\ namespaced(Urn, RadId) \in
                          {u.name : u \in success.applied.updated}
            /\ success.requires_confirmation =>
                   PeekFetched /\ id_tip(state, remote_id) # anchor)

\* A clone that replicate started from delegate A ended with Success and
\* the store has the URN.
C26_Witness ==
    /\ CloneFromDelegate
    /\ PeekFetched
    /\ ~success.requires_confirmation
    /\ has_urn(refdb, Urn)
    /\ refdb[namespaced(Urn, RadId)].oid = anchor

(***************************************************************************)
(* Properties of the data step.                                            *)
(***************************************************************************)
\* The signed refs <<p, name>> of the combined signed refs whose signed tip
\* is not the tip the local remote-tracking ref had before the run.
SignedAhead ==
    UNION {{<<p, n>> : n \in {m \in DOMAIN signed_refs.refs[p].refs :
                                 signed_refs.refs[p].refs[m]
                                     # refname_to_id(before[1], remote_tracking(p, m))}} :
           p \in DOMAIN signed_refs.refs}

\* applied.updated has an update of the remote-tracking ref of <<p, name>>.
Mentions(x) ==
    \E u \in success.applied.updated : u.name = Namespaced(remote_tracking(x[1], x[2]))

\* C27 as stated: after a successful run applied.updated mentions the
\* remote-tracking ref of every signed (name, tip) of every peer in the
\* combined signed refs whose signed tip differs from the local tip before
\* the run.
C27_UpdatedMentionsSigned ==
    (pc = "done" /\ result[1] = "Success") => \A x \in SignedAhead : Mentions(x)

\* C27, amended: after a successful run every such signed ref is either
\* updated to its signed tip, and applied.updated says so, or listed in
\* validation; a signed ref that applied.updated moves to another tip than
\* the signed one is listed in validation too.
C27_UpdatedOrWarned ==
    (pc = "done" /\ result[1] = "Success") =>
        \A x \in SignedAhead :
            /\ \/ [peer |-> x[1], name |-> x[2]] \in success.validation
               \/ \E u \in success.applied.updated :
                      /\ u.name = Namespaced(remote_tracking(x[1], x[2]))
                      /\ u.kind = "Direct"
                      /\ u.target = signed_refs.refs[x[1]].refs[x[2]]
            /\ \A u \in success.applied.updated :
                   (/\ u.name = Namespaced(remote_tracking(x[1], x[2]))
                    /\ u.target # signed_refs.refs[x[1]].refs[x[2]])
                       => [peer |-> x[1], name |-> x[2]] \in success.validation

\* A run returned Success with a signed ref of A moved to its signed tip and
\* without a warning for it.
C27_Witness ==
    /\ pc = "done" /\ result[1] = "Success"
    /\ <<PeerA, Main>> \in SignedAhead
    /\ Mentions(<<PeerA, Main>>)
    /\ [peer |-> PeerA, name |-> Main] \notin success.validation
    /\ refname_to_id(before[1], remote_tracking(PeerA, Main)) # NoOid

(***************************************************************************)
(* Properties of symbolic updates.                                         *)
(***************************************************************************)
\* Update i of the batch is symbolic, under the policy Allow, and its name
\* was a direct ref when Refdb::update was called.
SymbolicOverDirect(i) ==
    /\ updates[i].kind = "Symbolic"
    /\ updates[i].policy = "Allow"
    /\ Namespaced(updates[i].name) \in DOMAIN before[1]
    /\ before[1][Namespaced(updates[i].name)].kind = "peeled"

\* C28: a Symbolic update, alone in its batch, whose name is a direct ref
\* and whose type_change policy is Allow proceeds: once the locks are
\* taken the transaction commits and the name is a symbolic ref to the
\* given target.
C28_TypeChangeAllowed ==
    (/\ tx.called /\ tx.lock_ok
     /\ Len(updates) = 1
     /\ SymbolicOverDirect(1)) =>
        /\ tx.err = ""
        /\ refdb[Namespaced(updates[1].name)] = Symbolic(updates[1].symname)

(***************************************************************************)
(* Properties of the updates a run collects.                               *)
(***************************************************************************)
\* The updates of the batch that name the ref n, and the last of them.
Proposals(ups, n) == {i \in DOMAIN ups : ups[i].name = n}
LastOf(ups, n) == CHOOSE i \in Proposals(ups, n) : \A j \in Proposals(ups, n) : j <= i

\* The batch without the updates a later update of the same name follows.
RECURSIVE LastOnly(_, _)
LastOnly(ups, i) ==
    IF i > Len(ups) THEN <<>>
    ELSE (IF \E j \in (i + 1)..Len(ups) : ups[j].name = ups[i].name
          THEN <<>> ELSE <<ups[i]>>)
         \o LastOnly(ups, i + 1)

\* Of every ref several updates of the batch name, applied has one update,
\* the last proposed, and the ref is at its target in the store.
Collapsed(ups, store, applied) ==
    \A n \in {ups[i].name : i \in DOMAIN ups} :
        Cardinality(Proposals(ups, n)) >= 2 =>
            \E l \in {ups[LastOf(ups, n)]} :
               /\ Cardinality({u \in applied.updated : u.name = Namespaced(n)}) = 1
               /\ Namespaced(n) \in DOMAIN store
               /\ IF l.kind = "Direct"
                  THEN /\ UpdatedDirect(Namespaced(n), l.target) \in applied.updated
                       /\ store[Namespaced(n)] = Peeled(l.target)
                  ELSE /\ store[Namespaced(n)] = Symbolic(l.symname)
                       /\ \E u \in applied.updated :
                              /\ u.name = Namespaced(n)
                              /\ u.kind = "Symbolic"
                              /\ u.to = l.symname

Desired(neg, r) ==
    IF signed(neg, r.remote_id, owned(r.name)) # NoOid
    THEN signed(neg, r.remote_id, owned(r.name))
    ELSE IF is_tracked(neg, r.remote_id) THEN r.tip ELSE NoOid

\* C30: the object ids in `wants` are, for every retained ref that has a
\* signed tip, the signed tip (not the advertised one), for every unsigned
\* ref of a tracked peer the advertised tip, nothing for a ref that is
\* neither, and nothing for a ref whose local remote-tracking tip is
\* already the desired tip.
C30_WantsSignedTip ==
    out.op = "wants_haves" =>
        \A neg \in {Fetch(LocalId, remote_id, signed_refs)} :
            out.vals[1].wants =
                {Desired(neg, r) :
                    r \in {x \in Retained(neg, args.adv) :
                              /\ Desired(neg, x) # NoOid
                              /\ Desired(neg, x) # Have(refdb, x)}}

(***************************************************************************)
(* Properties of the updates the data step proposes.                       *)
(***************************************************************************)
\* A Direct update with the policy Allow.
IsForced(u) == u.kind = "Direct" /\ u.policy = "Allow"

\* The name of a remote-tracking ref: refs/remotes/<peer>/<category>/...
IsRemoteTracking(n) ==
    /\ Len(n) >= 5
    /\ n[1] = "refs" /\ n[2] = "remotes"
    /\ n[3] \in Peers \cup {LocalId}

\* The store has the ref of the update u and the target of u does not
\* descend from its tip.
NonFastForward(store, objects, u) ==
    /\ refname_to_id(store, u.name) \notin {NoOid, -1}
    /\ ~is_in_ancestry_path(objects, u.target, refname_to_id(store, u.name))

CloneVerified == verify(odb, id_tip(state, remote_id), lookup_delegations(state, remote_id))

\* C32: ForClone::prepare returns the verification error and no update
\* when the identity at the captured rad/id tip does not verify; when it
\* verifies and the local peer id is not among its delegate_ids it returns
\* no update, and otherwise one Direct update per retained ref.
C32_DryRunUnlessLocalDelegate ==
    out.op = "prepare" =>
        \E res \in {out.vals[1]} :
            IF CloneVerified = 0
            THEN res.err = "Verification" /\ res.ups = <<>>
            ELSE /\ res.err = ""
                 /\ IF LocalId \notin Delegates(CloneVerified)
                    THEN res.ups = <<>>
                    ELSE /\ Len(res.ups) = Cardinality(args.refs)
                         /\ \A i \in DOMAIN res.ups : res.ups[i].kind = "Direct"

(***************************************************************************)
(* Properties of the Shim.                                                 *)
(***************************************************************************)
\* C33: the Shim is a read-through overlay.  After any sequence of updates
\* and track calls through the Shim, refname_to_id(n) returns the target
\* of the last update written for n when there is one and otherwise what
\* the persistent store returns for n; the persistent refdb and tracking
\* store are as they were, and the FetchState holds every update and every
\* tracking relationship written, in the order written.
C33_ReadThroughOverlay ==
    mode = "shim" =>
        /\ refdb = before[1]
        /\ trackings = before[2]
        /\ state.tips = args.ups
        /\ state.trks = args.rels
        /\ out.op = "refname_to_id" =>
              out.vals[2] =
                  IF Proposals(args.ups, out.vals[1]) # {}
                  THEN args.ups[LastOf(args.ups, out.vals[1])].target
                  ELSE refname_to_id(before[1], out.vals[1])

\* A's head, which the persistent store has at one tip, was written twice
\* through the Shim and then read: the read returns the tip written last,
\* which is not the persistent one.
C33_Witness ==
    /\ mode = "shim" /\ out.op = "refname_to_id" /\ out.vals[1] = TrackA
    /\ Len(args.ups) = 2
    /\ args.ups[1].name = TrackA /\ args.ups[2].name = TrackA
    /\ args.ups[1].target # args.ups[2].target
    /\ refname_to_id(refdb, TrackA) = args.ups[1].target
    /\ out.vals[2] = args.ups[2].target

\* C35: SignedRefs::load(of, cutoff) of the Shim loads the manifest at the
\* sigref tip the run recorded for `of` when there is one, and returns
\* what the persistent store loads for `of` whenever the run recorded no
\* tip for `of`, whatever tips it recorded for other peers.
C35_LoadFallsBackPerPeer ==
    (mode = "shim" /\ out.op = "load") =>
        out.vals[2] =
            IF out.vals[1] \in DOMAIN state.sigs
            THEN load_at(odb, state.sigs[out.vals[1]], out.vals[1], Cutoff)
            ELSE load(refdb, out.vals[1], Cutoff)

(***************************************************************************)
(* Properties of the haves of a step.                                      *)
(***************************************************************************)
\* The tips a step would hold if it read the remote-tracking ref of every
\* retained ref through the Shim over the FetchState `st`.
SeenThroughShim(st, s, adv) ==
    {shim_refname_to_id(st, refdb, remote_tracking(r.remote_id, r.name)) :
        r \in Retained(s, adv)} \ {NoOid, -1}

\* The tips of the refs the step wants.
WantsOf(s, adv) == {r.tip : r \in {x \in Retained(s, adv) : Wanted(s, refdb, x)}}

\* C34: a ForFetch step whose ls-refs returned refs skips the fetch with
\* WantNothing exactly when every tip it wants is one the refs hold, those
\* refs being read with the updates the earlier steps of the run proposed
\* laid over the persistent store.
C34_HavesSeeEarlierSteps ==
    [][(/\ mode = "steps" /\ pc = "peek" /\ pc' = "done"
        /\ out'.vals[1] = "" /\ DOMAIN args'.adv # {})
       => (out'.vals[2] = "WantNothing"
           <=> WantsOf(args'.s, args'.adv)
                   \subseteq SeenThroughShim(state, args'.s, args'.adv))]_vars

(***************************************************************************)
(* Properties of the tips a step records.                                  *)
(***************************************************************************)
\* C38: every peer with an entry in the delegation tips of the FetchState
\* has an entry in its identity tips.
C38_DelsHaveIdTip == DOMAIN state.dels \subseteq DOMAIN state.idts

\* The refs run_fetch hands to the step when the pack held every wanted tip.
ReturnedRefs(s, adv) == {x \in Retained(s, adv) : Wanted(s, refdb, x)}

\* C40: a step returns the layout error exactly when pre_validate rejects
\* the refs run_fetch returned, and then the FetchState is what it was
\* before the step: its tips, its updates and its trackings.
C40_RejectedStepKeepsState ==
    [][(mode = "steps" /\ pc # "done")
       => /\ out'.vals[1] = "Layout"
             => /\ state' = state
                /\ ~pre_validate(args'.s, ReturnedRefs(args'.s, args'.adv))
          /\ (/\ streams' = streams + 2
              /\ out'.vals[1] # "NotFoundInPack"
              /\ ~pre_validate(args'.s, ReturnedRefs(args'.s, args'.adv)))
             => out'.vals[1] = "Layout" /\ state' = state]_vars

\* A ForFetch step after a clone step is rejected although the refs it
\* was handed hold an id, a delegation or a sigref tip.
C40_Witness ==
    /\ mode = "steps" /\ pc = "done"
    /\ out.op = "step" /\ out.vals[1] = "Layout"
    /\ args.s.kind = "ForFetch"
    /\ state.tips # <<>>
    /\ \E r \in ReturnedRefs(args.s, args.adv) : r.rad \in {"Id", "Ids", "SignedRefs"}

StepLog == SubSeq(log', Len(log) + 1, Len(log'))

Position(sq, x) ==
    IF \E i \in 1..Len(sq) : sq[i] = x
    THEN CHOOSE i \in 1..Len(sq) : sq[i] = x /\ \A j \in 1..(i - 1) : sq[j] # x
    ELSE 0

\* The step wants a tip that no remote-tracking ref of the persistent
\* store holds.
WantsMore(s, adv) ==
    WantsOf(s, adv) \ SeenThroughShim(FetchStateDefault, s, adv) # {}

\* C37: in a step a fetch comes after ls-refs; the second stream is opened,
\* the fetch issued and the pack added only if ls-refs returned a ref and
\* the step wants a tip the store does not have; when ls-refs returned and
\* that is not so, the step ends with NoMatchingRefs if no ref was
\* advertised and with WantNothing if some were, having opened one
\* stream, issued no fetch and added no object.
C37_FetchAfterLsRefs ==
    [][(mode = "steps" /\ pc # "done")
       => LET s == args'.s
              adv == args'.adv
              listed == Position(StepLog, "ls-refs") # 0
              fetched == Position(StepLog, "fetch") # 0
          IN  /\ fetched => listed /\ Position(StepLog, "ls-refs") < Position(StepLog, "fetch")
              /\ (fetched \/ streams' = streams + 2 \/ Position(StepLog, "add_pack") # 0
                    \/ odb' # odb)
                 => DOMAIN adv # {} /\ WantsMore(s, adv)
              /\ streams' = streams + 2 <=> fetched
              /\ (listed /\ ~(DOMAIN adv # {} /\ WantsMore(s, adv)))
                 => /\ out'.vals = <<"", IF DOMAIN adv = {} THEN "NoMatchingRefs"
                                         ELSE "WantNothing">>
                    /\ streams' = streams + 1
                    /\ ~fetched /\ odb' = odb
              /\ out'.vals[2] = "NoMatchingRefs" => listed /\ DOMAIN adv = {}
              /\ out'.vals[2] = "WantNothing"
                 => listed /\ DOMAIN adv # {} /\ ~WantsMore(s, adv)]_vars

\* A clone step fetched a pack and the ForFetch step after it was
\* advertised refs and wanted nothing.
C37_Witness ==
    /\ mode = "steps" /\ pc = "done"
    /\ args.s.kind = "ForFetch" /\ DOMAIN args.adv # {}
    /\ out.vals = <<"", "WantNothing">>
    /\ streams = 3
    /\ Position(log, "fetch") # 0

(***************************************************************************)
(* Properties of the tips across the data step.                            *)
(***************************************************************************)
\* sigrefs::combined over the loads of the Shim, none of which meets a
\* store error.
CombinedNow == combined(Loads(NoPeer), forfetch.delegates, forfetch.tracked)

\* C39: a data step that returns leaves the identity, delegation and
\* sigref tips of the FetchState as they were, the combined signed refs
\* computed from the state it leaves are the ones that drove it, and the
\* reload that follows yields them.
C39_DataStepKeepsTips ==
    [][/\ (pc = "data" /\ pc' = "reload")
          => /\ state'.idts = state.idts
             /\ state'.dels = state.dels
             /\ state'.sigs = state.sigs
             /\ CombinedNow' = signed_refs
       /\ (pc = "reload" /\ pc' = "validate") => signed_refs' = signed_refs]_vars

\* The data step fetched a pack for signed refs of a peer whose sigref tip
\* the FetchState holds, and the reload has been done.
C39_Witness ==
    /\ pc = "validate"
    /\ DOMAIN state.sigs # {} /\ DOMAIN signed_refs.refs # {}
    /\ \E i \in 1..Len(log) :
          /\ log[i] = "Fetch" /\ Len(log) >= i + 3
          /\ log[i + 3] = "fetch"

=============================================================================
